---- MODULE Spec2Model ----
(***************************************************************************)
(* Resume analysis pipeline: the Analysis Invoker (analyzeWithGemini) and  *)
(* the Processing Orchestrator (triggerGeminiAnalysis) of the Gemini       *)
(* service, over the Resume document store.                                *)
(*                                                                         *)
(* Texts (model replies) are sequences of tokens; every token stands for a *)
(* literal piece of text, whose characters are Chars.  Error messages are  *)
(* records [text, num, quoted]: the words of the message, the number       *)
(* printed at its end (-1 when it prints none) and the piece of the parsed *)
(* text it quotes.                                                         *)
(***************************************************************************)
EXTENDS Integers, Sequences, FiniteSets, TLC

\* ------------------------------------------------------------------ bounds
\* Number of triggerGeminiAnalysis invocations in one run of the model.
NumInvocations == 2

\* Cap of the history counter nCalls (the code itself stops at MAX_RETRIES).
CallCap == 5

\* Largest maxAttempts option a polling session is opened with.
MaxAttemptsOption == 3

\* Cap of the status requests started in one polling session.
RequestCap == 5

\* ------------------------------------------------------- program constants
MAX_RETRIES == 3

\* HTTP status the service uses for quota / rate limit (line 144).
QUOTA_STATUS == 429

\* ------------------------------------------------------------ JSON values
\* The values JSON.parse builds.  A string whose text the program inspects
\* is the sequence of its characters; a warning is an atom, the program only
\* compares warnings for equality.
JStr(chars) == [t |-> "string", v |-> chars]
JNum(n)     == [t |-> "number", v |-> n]
JArr(items) == [t |-> "array", v |-> items]
JObj(obj)   == [t |-> "object", v |-> obj]
JNull       == [t |-> "null"]
JBool(b)    == [t |-> "boolean", v |-> b]

\* typeof x === 'string'
IsString(x) == x.t = "string"
\* Array.isArray(x)
IsArray(x) == x.t = "array"

\* The decimal digits of n >= 0, as characters.
DigitChar(d) == <<"0", "1", "2", "3", "4", "5", "6", "7", "8", "9">>[d + 1]
RECURSIVE Decimal(_)
Decimal(n) == IF n < 10 THEN <<DigitChar(n)>> ELSE Decimal(n \div 10) \o <<DigitChar(n % 10)>>

\* String(x), as RegExp.prototype.test coerces its argument; an array is
\* its items joined by commas (null as nothing), an object '[object Object]'
RECURSIVE StringOf(_)
RECURSIVE JoinItems(_, _)
JoinItems(items, i) ==
  IF i > Len(items) THEN <<>>
  ELSE (IF i > 1 THEN <<",">> ELSE <<>>)
       \o (IF items[i].t = "null" THEN <<>> ELSE StringOf(items[i]))
       \o JoinItems(items, i + 1)

StringOf(x) ==
  CASE x.t = "string" -> x.v
    [] x.t = "number" -> IF x.v < 0 THEN <<"-">> \o Decimal(0 - x.v) ELSE Decimal(x.v)
    [] x.t = "null"   -> <<"n", "u", "l", "l">>
    [] x.t = "boolean" -> IF x.v THEN <<"t", "r", "u", "e">> ELSE <<"f", "a", "l", "s", "e">>
    [] x.t = "array"  -> JoinItems(x.v, 1)
    [] x.t = "object" -> <<"[", "o", "b", "j", "e", "c", "t", " ", "O", "b", "j", "e", "c", "t", "]">>

\* ------------------------------------------------------------------ tokens
\* Each token is named by the text it stands for (fence = three backquotes).
FenceJson == "<fence>json"
Fence     == "<fence>"
LB        == "{"
RB        == "}"
Comma     == ","
WS        == " "
Prose     == "Here is the analysis:"
MFit      == "'fitScore':6"
MSkills   == "'skills':['React']"
\* a skill given as a number, not as a string
MSkillsNum == "'skills':[2025550123]"
\* 'justification':'aaa...a' with 396 letters inside the quotes
MLong     == "'justification':'a*396'"
KeyEdu    == "'education':"

\* The double quote, and the backquote (one character, written by name).
Quote     == "\""
Backquote == "<backquote>"

\* The characters of the text a token stands for.
Chars(t) ==
  CASE t = FenceJson -> <<Backquote, Backquote, Backquote, "j", "s", "o", "n">>
    [] t = Fence     -> <<Backquote, Backquote, Backquote>>
    [] t = LB        -> <<"{">>
    [] t = RB        -> <<"}">>
    [] t = Comma     -> <<",">>
    [] t = WS        -> <<" ">>
    [] t = Prose     -> <<"H", "e", "r", "e", " ", "i", "s", " ", "t", "h", "e", " ", "a", "n", "a", "l", "y", "s", "i", "s", ":">>
    [] t = MFit      -> <<Quote, "f", "i", "t", "S", "c", "o", "r", "e", Quote, ":", "6">>
    [] t = MSkills   -> <<Quote, "s", "k", "i", "l", "l", "s", Quote, ":", "[", Quote, "R", "e", "a", "c", "t", Quote, "]">>
    [] t = MSkillsNum -> <<Quote, "s", "k", "i", "l", "l", "s", Quote, ":", "[", "2", "0", "2", "5", "5", "5", "0", "1", "2", "3", "]">>
    [] t = MLong     -> <<Quote, "j", "u", "s", "t", "i", "f", "i", "c", "a", "t", "i", "o", "n", Quote, ":", Quote>> \o [i \in 1..396 |-> "a"] \o <<Quote>>
    [] t = KeyEdu    -> <<Quote, "e", "d", "u", "c", "a", "t", "i", "o", "n", Quote, ":">>

\* The text a sequence of tokens stands for, character by character.
RECURSIVE TextOf(_)
TextOf(s) == IF s = <<>> THEN <<>> ELSE Chars(Head(s)) \o TextOf(Tail(s))

\* The characters written as one string, as a message prints them.
RECURSIVE Join(_)
Join(chars) == IF chars = <<>> THEN "" ELSE Head(chars) \o Join(Tail(chars))

\* ------------------------------------------------- String.prototype pieces
RECURSIVE TrimStart(_)
TrimStart(s) ==
  IF s # <<>> /\ Head(s) = WS THEN TrimStart(Tail(s)) ELSE s

RECURSIVE TrimEnd(_)
TrimEnd(s) ==
  IF s # <<>> /\ s[Len(s)] = WS THEN TrimEnd(SubSeq(s, 1, Len(s) - 1)) ELSE s

\* responseText.trim()
Trim(s) == TrimEnd(TrimStart(s))

\* lines 115-117: a leading fence marker with the word json is cut off
StripFenceStart(s) ==
  IF s # <<>> /\ Head(s) = FenceJson THEN Tail(s) ELSE s

\* lines 118-120: a trailing fence marker is cut off
StripFenceEnd(s) ==
  IF s # <<>> /\ s[Len(s)] = Fence THEN SubSeq(s, 1, Len(s) - 1) ELSE s

\* lines 114-121
cleanedJsonText(responseText) ==
  Trim(StripFenceEnd(StripFenceStart(Trim(responseText))))

\* s.indexOf(t) counted in tokens from 1; 0 stands for the code's -1
IndexOf(s, t) ==
  IF \E i \in 1..Len(s) : s[i] = t
  THEN CHOOSE i \in 1..Len(s) : s[i] = t /\ \A j \in 1..(i - 1) : s[j] # t
  ELSE 0

\* s.lastIndexOf(t) counted in tokens from 1; 0 stands for the code's -1
LastIndexOf(s, t) ==
  IF \E i \in 1..Len(s) : s[i] = t
  THEN CHOOSE i \in 1..Len(s) : s[i] = t /\ \A j \in (i + 1)..Len(s) : s[j] # t
  ELSE 0

\* A search for the opening brace from the end of the text.
startIndexFromEnd(text) == LastIndexOf(text, LB)

\* line 125
startIndex(text) == IndexOf(text, LB)

\* line 126
endIndex(text)   == LastIndexOf(text, RB)

\* line 128: startIndex === -1 || endIndex === -1 || endIndex < startIndex
NoObjectMarkers(text) ==
  startIndex(text) = 0 \/ endIndex(text) = 0 \/ endIndex(text) < startIndex(text)

\* line 132: cleanedJsonText.substring(startIndex, endIndex + 1)
potentialJson(text) == SubSeq(text, startIndex(text), endIndex(text))

\* ---------------------------------------------------------------- messages
NoNum == 0 - 1
\* quoted: the piece of the parsed text a message prints between its words
QuotedMsg(text, num, quoted) == [text |-> text, num |-> num, quoted |-> quoted]
Msg(text, num) == QuotedMsg(text, num, <<>>)

MarkersMsg  == Msg("Gemini response does not contain valid JSON object markers.", NoNum)
FitScoreMsg == Msg("fitScore is missing in Gemini response", NoNum)
QuotaMsg    == Msg("Gemini AI Quota Exceeded. Please try again later.", NoNum)
NoModelMsg  == Msg("Gemini model not initialized.", NoNum)
JobMissingMsg == Msg("Associated job description not found.", NoNum)
\* ------------------------------------------------------------- JSON.parse
\* JSON.parse as V8 11.3 (node 20) runs it on the characters of the text:
\* positions are counted from 0, index i of the model is position i - 1.
\* The texts hold no backslash, no control character, no fraction and no
\* exponent, so escapes and the fractional part of a number are not read.

\* The SyntaxError messages that print the position
ExpectedPropNameOrRBrace == "Expected property name or '}' in JSON at position "
ExpectedDoubleQuotedPropertyName == "Expected double-quoted property name in JSON at position "
ExpectedColonAfterPropertyName == "Expected ':' after property name in JSON at position "
ExpectedCommaOrRBrace == "Expected ',' or '}' after property value in JSON at position "
ExpectedCommaOrRBrack == "Expected ',' or ']' after array element in JSON at position "
UnexpectedNonWhiteSpaceCharacter == "Unexpected non-whitespace character after JSON at position "
UnterminatedString == "Unterminated string in JSON at position "
NoNumberAfterMinusSign == "No number after minus sign in JSON at position "
UnexpectedTokenNumber == "Unexpected number in JSON at position "
UnexpectedTokenString == "Unexpected string in JSON at position "

EndOfInputMsg  == Msg("Unexpected end of JSON input", NoNum)

\* kMaxContextCharacters, kMinOriginalSourceLengthForContext
MaxContextCharacters == 10
MinOriginalSourceLengthForContext == 2 * MaxContextCharacters + 1

\* "Unexpected token 'c', ... is not valid JSON": no position, the whole
\* text when it is short, else the characters around position pos
SyntaxMsg(c, pos) ==
  IF Len(c) < MinOriginalSourceLengthForContext
  THEN QuotedMsg("Unexpected token '" \o c[pos + 1] \o "', \"" \o Join(c)
                   \o "\" is not valid JSON", NoNum, c)
  ELSE IF pos < MaxContextCharacters
  THEN QuotedMsg("Unexpected token '" \o c[pos + 1] \o "', \""
                   \o Join(SubSeq(c, 1, pos + MaxContextCharacters))
                   \o "\"... is not valid JSON", NoNum,
                 SubSeq(c, 1, pos + MaxContextCharacters))
  ELSE IF pos < Len(c) - MaxContextCharacters
  THEN QuotedMsg("Unexpected token '" \o c[pos + 1] \o "', ...\""
                   \o Join(SubSeq(c, pos - MaxContextCharacters + 1, pos + MaxContextCharacters))
                   \o "\"... is not valid JSON", NoNum,
                 SubSeq(c, pos - MaxContextCharacters + 1, pos + MaxContextCharacters))
  ELSE QuotedMsg("Unexpected token '" \o c[pos + 1] \o "', ...\""
                   \o Join(SubSeq(c, pos - MaxContextCharacters + 1, Len(c)))
                   \o "\" is not valid JSON", NoNum,
                 SubSeq(c, pos - MaxContextCharacters + 1, Len(c)))

\* The result of a parse step: ok with the value and the next index, or a
\* failure with the message of the SyntaxError.
POk(val, next) == [ok |-> TRUE, val |-> val, next |-> next]
PErr(msg) == [ok |-> FALSE, msg |-> msg]

\* IsSpecialString: the text is what String() makes of a value that is no text
IsSpecialString(c) == Join(c) \in {"NaN", "Infinity", "undefined", "[object Object]"}

\* ReportUnexpectedToken at index i: the message the caller expects with, or
\* the one of the token found there (the end of the text, a number, a
\* string, or any other character)
Report(c, i, errorMessage) ==
  IF errorMessage # "" THEN PErr(Msg(errorMessage, i - 1))
  ELSE IF i > Len(c) THEN PErr(EndOfInputMsg)
  ELSE IF c[i] = "-" \/ c[i] \in {"0", "1", "2", "3", "4", "5", "6", "7", "8", "9"}
  THEN PErr(Msg(UnexpectedTokenNumber, i - 1))
  ELSE IF c[i] = Quote THEN PErr(Msg(UnexpectedTokenString, i - 1))
  ELSE IF IsSpecialString(c)
  THEN PErr(QuotedMsg("\"" \o Join(c) \o "\" is not valid JSON", NoNum, c))
  ELSE PErr(SyntaxMsg(c, i - 1))

RECURSIVE SkipWS(_, _)
SkipWS(c, i) == IF i <= Len(c) /\ c[i] = " " THEN SkipWS(c, i + 1) ELSE i

IsDigit(ch) == \E d \in 0..9 : DigitChar(d) = ch
DigitVal(ch) == CHOOSE d \in 0..9 : DigitChar(d) = ch

\* index of the quote that closes the string opened at i; 0 when none does
ClosingQuote(c, i) ==
  IF \A j \in (i + 1)..Len(c) : c[j] # Quote THEN 0
  ELSE CHOOSE j \in (i + 1)..Len(c) :
         c[j] = Quote /\ \A k \in (i + 1)..(j - 1) : c[k] # Quote

\* index after the digits that start at i
RECURSIVE DigitsEnd(_, _)
DigitsEnd(c, i) == IF i <= Len(c) /\ IsDigit(c[i]) THEN DigitsEnd(c, i + 1) ELSE i

\* The number a string of digits writes.
RECURSIVE DigitsValue(_)
DigitsValue(chars) ==
  IF chars = <<>> THEN 0
  ELSE 10 * DigitsValue(SubSeq(chars, 1, Len(chars) - 1)) + DigitVal(chars[Len(chars)])

\* the name of a property key (the keys the texts can write)
KeyName(chars) == Join(chars)

\* obj with key k set to v (a later duplicate key wins, as in JSON.parse)
Put(obj, k, v) == [x \in (DOMAIN obj) \cup {k} |-> IF x = k THEN v ELSE obj[x]]

EmptyObj == [x \in {} |-> "0"]

RECURSIVE ParseValue(_, _)
RECURSIVE ParseMembers(_, _, _, _, _)
RECURSIVE AfterMember(_, _, _)
RECURSIVE ParseElements(_, _, _)
RECURSIVE AfterElement(_, _, _)

\* c[i..e] is a string literal
StringValue(c, i, e) ==
  IF e = 0 THEN Report(c, Len(c) + 1, UnterminatedString)
  ELSE POk(JStr(SubSeq(c, i + 1, e - 1)), e + 1)

\* the digits of a number start at i
NumberFrom(c, i, sign) ==
  IF i > Len(c) \/ ~IsDigit(c[i])
  THEN IF sign < 0 THEN Report(c, i, NoNumberAfterMinusSign)
       ELSE Report(c, i, UnexpectedTokenNumber)
  ELSE IF c[i] = "0" /\ i < Len(c) /\ IsDigit(c[i + 1])
  THEN Report(c, i + 1, UnexpectedTokenNumber)
  ELSE POk(JNum(sign * DigitsValue(SubSeq(c, i, DigitsEnd(c, i) - 1))), DigitsEnd(c, i))

\* ScanLiteral: the word is read whole, or the first character that
\* differs is reported
Literal(c, i, word, val) ==
  IF \A k \in 1..Len(word) : i + k - 1 <= Len(c) /\ c[i + k - 1] = word[k]
  THEN POk(val, i + Len(word))
  ELSE Report(c, CHOOSE j \in i..(i + Len(word) - 1) :
                   /\ j > Len(c) \/ c[j] # word[j - i + 1]
                   /\ \A k \in i..(j - 1) : c[k] = word[k - i + 1], "")

\* the value r was read as the value of key
MemberRead(c, obj, key, r) ==
  IF r.ok THEN AfterMember(c, SkipWS(c, r.next), Put(obj, key, r.val)) ELSE r

\* the key c[j..e] was read; k stands after it, where ':' is expected: the
\* first key of an object names the colon in its message, a key after a
\* comma has no message of its own and the token found is reported
KeyRead(c, j, e, k, obj, colonMessage) ==
  IF k > Len(c) \/ c[k] # ":" THEN Report(c, k, colonMessage)
  ELSE MemberRead(c, obj, KeyName(SubSeq(c, j + 1, e - 1)),
                  ParseValue(c, SkipWS(c, k + 1)))

\* c[j] opens a key that closes at e
KeyFrom(c, j, e, obj, colonMessage) ==
  IF e = 0 THEN Report(c, Len(c) + 1, UnterminatedString)
  ELSE KeyRead(c, j, e, SkipWS(c, e + 1), obj, colonMessage)

\* c[j] must open a property key
ParseMembers(c, j, obj, errorMessage, colonMessage) ==
  IF j > Len(c) \/ c[j] # Quote THEN Report(c, j, errorMessage)
  ELSE KeyFrom(c, j, ClosingQuote(c, j), obj, colonMessage)

\* c[k] follows a property value: ',' or '}' is expected
AfterMember(c, k, obj) ==
  IF k <= Len(c) /\ c[k] = ","
  THEN ParseMembers(c, SkipWS(c, k + 1), obj, ExpectedDoubleQuotedPropertyName, "")
  ELSE IF k <= Len(c) /\ c[k] = "}" THEN POk(JObj(obj), k + 1)
  ELSE Report(c, k, ExpectedCommaOrRBrace)

\* c[j] follows '{'
ParseObject(c, j) ==
  IF j <= Len(c) /\ c[j] = "}" THEN POk(JObj(EmptyObj), j + 1)
  ELSE ParseMembers(c, j, EmptyObj, ExpectedPropNameOrRBrace,
                    ExpectedColonAfterPropertyName)

\* the value r was read as an element
ElementRead(c, items, r) ==
  IF r.ok THEN AfterElement(c, SkipWS(c, r.next), Append(items, r.val)) ELSE r

ParseElements(c, j, items) == ElementRead(c, items, ParseValue(c, j))

\* c[k] follows an element: ',' or ']' is expected
AfterElement(c, k, items) ==
  IF k <= Len(c) /\ c[k] = "," THEN ParseElements(c, SkipWS(c, k + 1), items)
  ELSE IF k <= Len(c) /\ c[k] = "]" THEN POk(JArr(items), k + 1)
  ELSE Report(c, k, ExpectedCommaOrRBrack)

\* c[j] follows '['
ParseArray(c, j) ==
  IF j <= Len(c) /\ c[j] = "]" THEN POk(JArr(<<>>), j + 1)
  ELSE ParseElements(c, j, <<>>)

\* ParseJsonValue: c[i] is the first character of a value
ParseValue(c, i) ==
  IF i > Len(c) THEN Report(c, i, "")
  ELSE CASE c[i] = Quote -> StringValue(c, i, ClosingQuote(c, i))
         [] c[i] = "-"   -> NumberFrom(c, i + 1, 0 - 1)
         [] IsDigit(c[i]) -> NumberFrom(c, i, 1)
         [] c[i] = "{"   -> ParseObject(c, SkipWS(c, i + 1))
         [] c[i] = "["   -> ParseArray(c, SkipWS(c, i + 1))
         [] c[i] = "t"   -> Literal(c, i, <<"t", "r", "u", "e">>, JBool(TRUE))
         [] c[i] = "f"   -> Literal(c, i, <<"f", "a", "l", "s", "e">>, JBool(FALSE))
         [] c[i] = "n"   -> Literal(c, i, <<"n", "u", "l", "l">>, JNull)
         [] OTHER        -> Report(c, i, "")

\* the value r was read: nothing but white space may follow
ValueRead(c, r, k) ==
  IF k <= Len(c) THEN Report(c, k, UnexpectedNonWhiteSpaceCharacter) ELSE r

ParseJson(c, r) == IF r.ok THEN ValueRead(c, r, SkipWS(c, r.next)) ELSE r

\* JSON.parse(text), text given by its tokens
JSONparse(s) == ParseJson(TextOf(s), ParseValue(TextOf(s), SkipWS(TextOf(s), 1)))

\* ---------------------------------------------------------- model outcomes
\* What one generateContent call can do: answer with a text, or fail with
\* an error carrying a message and (0 = none) an HTTP status.
Undefined == 0
Err(msg, status) == [msg |-> msg, status |-> status]

TooManyMsg     == Msg("[GoogleGenerativeAI Error]: [429 Too Many Requests]", NoNum)
UnavailableMsg == Msg("[GoogleGenerativeAI Error]: [503 Service Unavailable]", NoNum)
RateLimitMsg   == Msg("Resource has been exhausted (e.g. check quota).", NoNum)

ApiErrors ==
  { Err(UnavailableMsg, 503),
    Err(TooManyMsg, QUOTA_STATUS),
    Err(RateLimitMsg, QUOTA_STATUS) }

Replies ==
  { <<LB, MFit, RB>>,
    <<FenceJson, WS, LB, MFit, Comma, MSkills, RB, WS, Fence>>,
    <<LB, MFit, Comma, MSkillsNum, RB>>,
    <<Prose>>,
    <<LB, MSkills, RB>>,
    <<LB, MFit, Prose, RB>>,
    <<LB, MFit, Comma, MLong, WS, Prose, RB>> }

ModelOutcomes ==
  { [kind |-> "reply", text |-> t] : t \in Replies } \cup
  { [kind |-> "throw", err |-> e] : e \in ApiErrors }

\* ------------------------------------------------ analyzeWithGemini, a try
Returned(val) == [ok |-> TRUE, val |-> val]
Thrown(err)   == [ok |-> FALSE, err |-> err]

\* A validation that accepts every parsed object.
FitScoreNeverMissing(parsedResponse) == FALSE

\* line 136: typeof parsedResponse.fitScore === 'undefined'
FitScoreMissing(parsedResponse) == "fitScore" \notin DOMAIN parsedResponse

\* lines 110-140: the body of the try block for one outcome of the call
TryBody(o) ==
  IF o.kind = "throw" THEN Thrown(o.err)
  ELSE LET text == cleanedJsonText(o.text) IN
       IF NoObjectMarkers(text) THEN Thrown(Err(MarkersMsg, Undefined))
       ELSE LET r == JSONparse(potentialJson(text)) IN
            IF ~r.ok THEN Thrown(Err(r.msg, Undefined))
            ELSE IF FitScoreMissing(r.val.v) THEN Thrown(Err(FitScoreMsg, Undefined))
            ELSE Returned(r.val.v)

\* n written in decimal includes the digits 429
DecimalIncludes429(n) ==
  n >= 0 /\ \E k \in 0..6 : (n \div (10 ^ k)) % 1000 = 429

\* message.includes('429')
Includes429(msg) ==
  \/ msg.text = TooManyMsg.text
  \/ DecimalIncludes429(msg.num)
  \/ \E i \in 1..(Len(msg.quoted) - 2) : SubSeq(msg.quoted, i, i + 2) = <<"4", "2", "9">>

\* A quota test that looks at the message alone.
IsQuotaErrorByMessageOnly(err) == Includes429(err.msg)

\* line 144: error.message?.includes('429') || error.status === 429
IsQuotaError(err) == Includes429(err.msg) \/ err.status = QUOTA_STATUS

\* line 155
FailedAfterMsg(inner) ==
  QuotedMsg("Gemini API call failed after 3 attempts: " \o inner.text, inner.num,
            inner.quoted)

\* line 154: attempt >= MAX_RETRIES, attempt already incremented
RetriesExhausted(a) == a >= MAX_RETRIES

\* line 108: while (attempt < MAX_RETRIES)
LoopGuard(a) == a < MAX_RETRIES

\* ---------------------------------------------------- regular expressions
Digits == {"0", "1", "2", "3", "4", "5", "6", "7", "8", "9"}
Lower == {"a", "b", "c", "d", "e", "f", "g", "h", "i", "j", "k", "l", "m",
          "n", "o", "p", "q", "r", "s", "t", "u", "v", "w", "x", "y", "z"}
Upper == {"A", "B", "C", "D", "E", "F", "G", "H", "I", "J", "K", "L", "M",
          "N", "O", "P", "Q", "R", "S", "T", "U", "V", "W", "X", "Y", "Z"}
\* \w
WordChars == Digits \cup Lower \cup Upper \cup {"_"}
\* \s, as far as the texts of the model go
SpaceChars == {" "}

\* A pattern is a sequence of elements, matched by backtracking, greedy:
\* a character class with a repeat count, \b, or an optional group.
NoMax == 0 - 1
Cls(set, min, max) == [kind |-> "class", set |-> set, min |-> min, max |-> max]
One(set) == Cls(set, 1, 1)
Maybe(set) == Cls(set, 0, 1)
Plus(set) == Cls(set, 1, NoMax)
WordB == [kind |-> "wordb"]
Opt(body) == [kind |-> "opt", body |-> body]

IsWordAt(s, i) == i >= 1 /\ i <= Len(s) /\ s[i] \in WordChars

\* \b between s[i - 1] and s[i]
WordBoundary(s, i) == IsWordAt(s, i - 1) # IsWordAt(s, i)

\* How many characters from s[i] on the class e can take.
RECURSIVE Run(_, _, _, _)
Run(e, s, i, n) ==
  IF i + n <= Len(s) /\ s[i + n] \in e.set /\ (e.max = NoMax \/ n < e.max)
  THEN Run(e, s, i, n + 1) ELSE n

\* The match of pattern re that starts at s[i]: the index after its last
\* character, or 0 when there is none.
RECURSIVE Match(_, _, _)
RECURSIVE TryCount(_, _, _, _, _)
Match(re, s, i) ==
  IF re = <<>> THEN i
  ELSE LET e == Head(re)
           rest == Tail(re)
       IN CASE e.kind = "wordb" -> IF WordBoundary(s, i) THEN Match(rest, s, i) ELSE 0
            [] e.kind = "opt" -> LET r == Match(e.body \o rest, s, i)
                                 IN IF r # 0 THEN r ELSE Match(rest, s, i)
            [] e.kind = "class" -> TryCount(e, rest, s, i, Run(e, s, i, 0))

TryCount(e, rest, s, i, n) ==
  IF n < e.min THEN 0
  ELSE LET r == Match(rest, s, i + n)
       IN IF r # 0 THEN r ELSE TryCount(e, rest, s, i, n - 1)

\* The first match at or after s[i]: its start, or 0.
RECURSIVE SearchFrom(_, _, _)
SearchFrom(re, s, i) ==
  IF i > Len(s) + 1 THEN 0
  ELSE IF Match(re, s, i) # 0 THEN i
  ELSE SearchFrom(re, s, i + 1)

\* pattern.test(text) with lastIndex 0 (line 224 resets it after every use)
RegexTest(re, s) == SearchFrom(re, s, 1) # 0

\* text.replace(pattern, repl) for a pattern with the g flag
RECURSIVE ReplaceFrom(_, _, _, _)
ReplaceFrom(re, s, repl, i) ==
  LET j == SearchFrom(re, s, i) IN
  IF j = 0 THEN SubSeq(s, i, Len(s))
  ELSE LET e == Match(re, s, j) IN
       IF e = j
       THEN SubSeq(s, i, j - 1) \o repl
            \o (IF j <= Len(s) THEN <<s[j]>> \o ReplaceFrom(re, s, repl, j + 1) ELSE <<>>)
       ELSE SubSeq(s, i, j - 1) \o repl \o ReplaceFrom(re, s, repl, e)

Replace(re, s, repl) == ReplaceFrom(re, s, repl, 1)

\* -------------------------------------------------------------- PII scrub
\* line 211: /\b[A-Za-z0-9._%+-]+@[A-Za-z0-9.-]+\.[A-Z|a-z]{2,7}\b/gi
EmailPattern ==
  << WordB,
     Plus(Lower \cup Upper \cup Digits \cup {".", "_", "%", "+", "-"}),
     One({"@"}),
     Plus(Lower \cup Upper \cup Digits \cup {".", "-"}),
     One({"."}),
     Cls(Lower \cup Upper \cup {"|"}, 2, 7),
     WordB >>

\* [-.\s]
Separators == {"-", "."} \cup SpaceChars

\* line 212: /\b(?:\+?\d{1,3}[-.\s]?)?\(?\d{3}\)?[-.\s]?\d{3}[-.\s]?\d{4}\b/g
PhonePattern ==
  << WordB,
     Opt(<< Maybe({"+"}), Cls(Digits, 1, 3), Maybe(Separators) >>),
     Maybe({"("}), Cls(Digits, 3, 3), Maybe({")"}), Maybe(Separators),
     Cls(Digits, 3, 3), Maybe(Separators),
     Cls(Digits, 4, 4),
     WordB >>

\* lines 210-213
piiPatterns ==
  << [pattern |-> EmailPattern, type |-> "Email"],
     [pattern |-> PhonePattern, type |-> "Phone"] >>

TypeChars(type) ==
  IF type = "Email" THEN <<"E", "m", "a", "i", "l">> ELSE <<"P", "h", "o", "n", "e">>

\* line 222: the text [REDACTED type]
Redacted(type) ==
  <<"[", "R", "E", "D", "A", "C", "T", "E", "D", " ">> \o TypeChars(type) \o <<"]">>

\* line 220
SkillWarning(type) == "System: Potential PII (" \o type \o ") detected and redacted from skill."

\* The warning for an institution worded as the one for a skill.
EduWarningAsSkill(type) == SkillWarning(type)

\* line 235
EduWarning(type) == "System: Potential PII (" \o type \o ") detected in education institution."

\* line 247
JustWarning(type) == "System: Potential PII (" \o type \o ") detected in 'justification'."

EmailSkillWarning == SkillWarning("Email")
PhoneSkillWarning == SkillWarning("Phone")

TypeErrorMsg    == Msg("cleanedSkill.replace is not a function", NoNum)
IncludesErrMsg  == Msg("systemWarnings.includes is not a function", NoNum)
PushErrMsg      == Msg("systemWarnings.push is not a function", NoNum)
\* line 253, new Set(x) of a value without an iterator: V8 names the type
\* of x, and its value unless x is an object
NotIterableMsg(x) ==
  Msg((IF x.t = "object" THEN "object" ELSE x.t \o " " \o Join(StringOf(x)))
        \o " is not iterable (cannot read property Symbol(Symbol.iterator))", NoNum)
NullEduMsg      == Msg("Cannot read properties of null (reading 'institution')", NoNum)

\* x is falsy: what  x || []  and  x && ...  look at
Falsy(x) ==
  \/ x.t = "null"
  \/ x.t = "number" /\ x.v = 0
  \/ x.t = "string" /\ x.v = <<>>
  \/ x.t = "boolean" /\ ~x.v

\* The field of the object, JNull standing for a field that is not there
\* (the scrub treats undefined and null alike).
Field(obj, k) == IF k \in DOMAIN obj THEN obj[k] ELSE JNull

\* A membership test that never finds the message.
IncludesNever(w, msg) == FALSE

\* systemWarnings.includes(msg)
Includes(w, msg) == \E i \in 1..Len(w) : w[i] = msg

\* lines 221, 236, 248: if (!systemWarnings.includes(msg)) systemWarnings.push(msg)
AddWarning(w, msg) == IF Includes(w, msg) THEN w ELSE Append(w, msg)

\* String.prototype.includes(msg) of the string with these characters
StringIncludes(chars, msg) ==
  \E i \in 1..(Len(chars) - Len(msg) + 1) :
     Join(SubSeq(chars, i, i + Len(msg) - 1)) = msg

\* line 208: warnings || [] is an array, a string that is not empty, or a
\* value with neither includes nor an iterator
WarningsKind(warnings) ==
  IF Falsy(warnings) \/ IsArray(warnings) THEN "array"
  ELSE IF IsString(warnings) THEN "string"
  ELSE "other"

\* The state of the scrub: the error thrown so far, what systemWarnings is,
\* its items (the characters of a string), and cleanedSkill of the skill at
\* hand.
ScrubStart(warnings) ==
  [err |-> <<>>,
   kind |-> WarningsKind(warnings),
   w |-> IF Falsy(warnings) THEN <<>> ELSE IF WarningsKind(warnings) = "other" THEN <<>> ELSE warnings.v,
   cleaned |-> JNull]

\* lines 221, 236, 248 on systemWarnings as it is
Warn(st, msg) ==
  CASE st.kind = "array"  -> [st EXCEPT !.w = AddWarning(@, msg)]
    [] st.kind = "string" -> IF StringIncludes(st.w, msg) THEN st
                             ELSE [st EXCEPT !.err = <<PushErrMsg>>]
    [] st.kind = "other"  -> [st EXCEPT !.err = <<IncludesErrMsg>>]

\* lines 219-224 for one pattern
SkillPattern(st, skill, p) ==
  IF st.err # <<>> THEN st
  ELSE IF ~RegexTest(p.pattern, StringOf(skill)) THEN st
  ELSE LET warned == Warn(st, SkillWarning(p.type)) IN
       IF warned.err # <<>> THEN warned
       ELSE IF ~IsString(st.cleaned) THEN [warned EXCEPT !.err = <<TypeErrorMsg>>]
       ELSE [warned EXCEPT
               !.cleaned = JStr(Replace(p.pattern, st.cleaned.v, Redacted(p.type)))]

\* lines 217-226 for one skill
CleanedSkill(st, skill) ==
  SkillPattern(SkillPattern([st EXCEPT !.cleaned = skill], skill, piiPatterns[1]),
               skill, piiPatterns[2])

\* lines 216-227: skills.map
RECURSIVE ScrubSkills(_, _, _, _)
ScrubSkills(st, skills, i, out) ==
  IF st.err # <<>> \/ i > Len(skills) THEN [st |-> st, out |-> out]
  ELSE LET next == CleanedSkill(st, skills[i])
       IN ScrubSkills(next, skills, i + 1, Append(out, next.cleaned))

\* lines 233-239 and 245-251: test the patterns, warn on a match
TextPatterns(st, text, w1, w2) ==
  LET a == IF st.err = <<>> /\ RegexTest(piiPatterns[1].pattern, text)
           THEN Warn(st, w1) ELSE st
  IN IF a.err = <<>> /\ RegexTest(piiPatterns[2].pattern, text)
     THEN Warn(a, w2) ELSE a

\* lines 231-241: education.forEach
RECURSIVE ScrubEducation(_, _, _)
ScrubEducation(st, education, i) ==
  IF st.err # <<>> \/ i > Len(education) THEN st
  ELSE LET edu == education[i] IN
       IF edu.t = "null" THEN [st EXCEPT !.err = <<NullEduMsg>>]
       ELSE IF edu.t = "object" /\ ~Falsy(Field(edu.v, "institution"))
               /\ IsString(Field(edu.v, "institution"))
       THEN ScrubEducation(
              TextPatterns(st, edu.v["institution"].v,
                           EduWarning("Email"), EduWarning("Phone")),
              education, i + 1)
       ELSE ScrubEducation(st, education, i + 1)

\* Array.from(new Set(w)): the first occurrence of every item, in order
RECURSIVE Unique(_)
Unique(w) ==
  IF w = <<>> THEN <<>>
  ELSE LET front == Unique(SubSeq(w, 1, Len(w) - 1))
       IN IF Includes(front, w[Len(w)]) THEN front ELSE Append(front, w[Len(w)])

\* lines 207-253: the scrubbed copy of the result, or the error thrown
Scrub(analysisResult) ==
  LET skills == Field(analysisResult, "skills")
      education == Field(analysisResult, "education")
      justification == Field(analysisResult, "justification")
      s0 == ScrubStart(Field(analysisResult, "warnings"))
      doSkills == ~Falsy(skills) /\ IsArray(skills)
      s1 == IF doSkills THEN ScrubSkills(s0, skills.v, 1, <<>>)
            ELSE [st |-> s0, out |-> <<>>]
      s2 == IF ~Falsy(education) /\ IsArray(education)
            THEN ScrubEducation(s1.st, education.v, 1) ELSE s1.st
      s3 == IF s2.err = <<>> /\ ~Falsy(justification) /\ IsString(justification)
            THEN TextPatterns(s2, justification.v,
                              JustWarning("Email"), JustWarning("Phone"))
            ELSE s2
      withSkills == IF doSkills THEN Put(analysisResult, "skills", JArr(s1.out))
                    ELSE analysisResult
  IN IF s3.err # <<>> THEN Thrown(Err(s3.err[1], Undefined))
     ELSE IF s3.kind = "other"
     THEN Thrown(Err(NotIterableMsg(Field(analysisResult, "warnings")), Undefined))
     ELSE Returned(Put(withSkills, "warnings", JArr(Unique(s3.w))))

\* ---------------------------------------------------------------- Number
\* Number(x) is <<>> for NaN, <<n>> for the integer n, <<[num, den]>> for
\* the decimal fraction num / den and for an infinity (den = 0).
NaN == <<>>

\* The digits of the radices 2, 8 and 16, by value
RadixDigits ==
  <<"0", "1", "2", "3", "4", "5", "6", "7", "8", "9", "a", "b", "c", "d", "e", "f">>
RadixDigitsUpper ==
  <<"0", "1", "2", "3", "4", "5", "6", "7", "8", "9", "A", "B", "C", "D", "E", "F">>

IsRadixDigit(ch, radix) ==
  \E d \in 1..radix : RadixDigits[d] = ch \/ RadixDigitsUpper[d] = ch

RadixVal(ch) ==
  (CHOOSE d \in 1..16 : RadixDigits[d] = ch \/ RadixDigitsUpper[d] = ch) - 1

RECURSIVE RadixValue(_, _)
RadixValue(chars, radix) ==
  IF chars = <<>> THEN 0
  ELSE radix * RadixValue(SubSeq(chars, 1, Len(chars) - 1), radix)
       + RadixVal(chars[Len(chars)])

\* 0x, 0o, 0b: the radix the text announces, 0 when it announces none
Radix(body) ==
  IF Len(body) < 2 \/ body[1] # "0" THEN 0
  ELSE CASE body[2] \in {"x", "X"} -> 16
         [] body[2] \in {"o", "O"} -> 8
         [] body[2] \in {"b", "B"} -> 2
         [] OTHER -> 0

\* NonDecimalIntegerLiteral: the digits after the prefix
RadixLiteral(digits, radix) ==
  IF digits # <<>> /\ \A i \in 1..Len(digits) : IsRadixDigit(digits[i], radix)
  THEN <<RadixValue(digits, radix)>> ELSE NaN

AllDigits(chars) == \A i \in 1..Len(chars) : IsDigit(chars[i])

\* index of the first character of s that is in set, 0 when none is
FirstOf(s, set) ==
  IF \A i \in 1..Len(s) : s[i] \notin set THEN 0
  ELSE CHOOSE i \in 1..Len(s) : s[i] \in set /\ \A j \in 1..(i - 1) : s[j] \notin set

Signed(body) == body # <<>> /\ body[1] \in {"+", "-"}
SignOf(body) == IF body # <<>> /\ body[1] = "-" THEN 0 - 1 ELSE 1
Unsigned(body) == IF Signed(body) THEN Tail(body) ELSE body

\* sign * d * 10^scale, written without trailing zeros in its fraction
RECURSIVE Scaled(_, _, _)
Scaled(sign, d, scale) ==
  IF scale >= 0 THEN <<sign * d * (10 ^ scale)>>
  ELSE IF d % 10 = 0 THEN Scaled(sign, d \div 10, scale + 1)
  ELSE <<[num |-> sign * d, den |-> 10 ^ (0 - scale)]>>

\* the mantissa split at its dot, and the exponent read
DecimalParts(sign, int, frac, exp) ==
  IF ~AllDigits(int) \/ ~AllDigits(frac) \/ int \o frac = <<>> THEN NaN
  ELSE IF exp = NaN THEN NaN
  ELSE Scaled(sign, DigitsValue(int \o frac), exp[1] - Len(frac))

\* the digits of an ExponentPart after e or E, sign allowed
ExponentValue(chars) ==
  IF Unsigned(chars) = <<>> \/ ~AllDigits(Unsigned(chars)) THEN NaN
  ELSE <<SignOf(chars) * DigitsValue(Unsigned(chars))>>

MantissaParts(sign, m, dot, exp) ==
  IF dot = 0 THEN DecimalParts(sign, m, <<>>, exp)
  ELSE DecimalParts(sign, SubSeq(m, 1, dot - 1), SubSeq(m, dot + 1, Len(m)), exp)

\* StrUnsignedDecimalLiteral u, split at its e or E
DecimalLiteral(sign, u, e) ==
  IF e = 0 THEN MantissaParts(sign, u, FirstOf(u, {"."}), <<0>>)
  ELSE MantissaParts(sign, SubSeq(u, 1, e - 1), FirstOf(SubSeq(u, 1, e - 1), {"."}),
                     ExponentValue(SubSeq(u, e + 1, Len(u))))

\* StringToNumber of a text without white space around it
StringNumericLiteral(body) ==
  IF body = <<>> THEN <<0>>
  ELSE IF Radix(body) # 0 THEN RadixLiteral(SubSeq(body, 3, Len(body)), Radix(body))
  ELSE IF Unsigned(body) = <<"I", "n", "f", "i", "n", "i", "t", "y">>
  THEN <<[num |-> SignOf(body), den |-> 0]>>
  ELSE DecimalLiteral(SignOf(body), Unsigned(body), FirstOf(Unsigned(body), {"e", "E"}))

\* Number(x)
Number(x) ==
  CASE x.t = "number" -> <<x.v>>
    [] x.t = "null" -> <<0>>
    [] x.t = "boolean" -> IF x.v THEN <<1>> ELSE <<0>>
    [] x.t = "string" -> StringNumericLiteral(Trim(x.v))
    [] x.t = "array" -> StringNumericLiteral(Trim(StringOf(x)))
    [] x.t = "object" -> NaN

\* line 257: Number(fitScore) || 0
Score(fitScore) ==
  LET n == Number(fitScore) IN IF n = NaN THEN 0 ELSE n[1]

\* ------------------------------------------------------------------ state
\* Optional values: None, or Some(x).
None == <<>>
Some(x) == <<x>>

Invocations == 1..NumInvocations

\* The ids of the stored documents.
DocIds == {"r1"}

\* An id that names no stored document.
MissingId == "r0"

StoreErrMsg == Msg("MongoNetworkError: connection closed", NoNum)
UnknownMsg  == Msg("Unknown processing error", NoNum)
AllRetriesMsg == Msg("Gemini analysis failed after all retries.", NoNum)

VARIABLES
  docs,        \* the Resume collection: id -> stored fields
  pc,          \* where each invocation of triggerGeminiAnalysis stands
  resumeId,    \* its argument
  resumeDoc,   \* its local resumeDoc: None, or Some(status read by findById)
  attempt,     \* the loop counter of analyzeWithGemini
  caught,      \* the error caught at line 267: None or Some(message)
  result,      \* updatedAnalysisResult, ready to be stored: None or Some(object)
  lastOutcome, \* what the model call that ended the retry loop did
  nCalls,      \* history: generateContent calls of the running invocation
  nWrites,     \* history: updates of the invocation the store applied
  errWriteFailed, \* history: the update of line 274 was rejected
  noJob,       \* JobDescription.findById of line 184 answered null
  nTerminal,   \* history: per document, applied updates to completed or error
  lab,         \* one reply followed alone through parsing, scrub and update
  up,          \* the uploadResume request at hand
  req,         \* one request followed alone: a file validated, a candidate list, an upload route
  poll         \* one polling session of useResumePolling

vars == <<docs, pc, resumeId, resumeDoc, attempt, caught, result, lastOutcome,
          nCalls, nWrites, errWriteFailed, noJob, nTerminal, lab, up, req, poll>>

\* ResumeModel.ts, lines 54-70: a new document as uploadResume saves it
NewResume ==
  [processingStatus |-> "uploaded", errorDetails |-> None,
   score |-> None, geminiAnalysis |-> None]

InitLocals ==
  /\ pc = [p \in Invocations |-> "idle"]
  /\ resumeId = [p \in Invocations |-> MissingId]
  /\ resumeDoc = [p \in Invocations |-> None]
  /\ attempt = [p \in Invocations |-> 0]
  /\ caught = [p \in Invocations |-> None]
  /\ result = [p \in Invocations |-> None]
  /\ lastOutcome = [p \in Invocations |-> None]
  /\ nCalls = [p \in Invocations |-> 0]
  /\ nWrites = [p \in Invocations |-> 0]
  /\ errWriteFailed = [p \in Invocations |-> FALSE]
  /\ noJob = [p \in Invocations |-> FALSE]

\* No reply is followed alone.
LabOff == [stage |-> "off"]

\* No upload request is at hand.
UpOff == [stage |-> "off"]

\* No request is followed alone.
ReqOff == [stage |-> "off"]

\* No polling session is open.
PollOff == [stage |-> "off"]

Init ==
  /\ docs = [d \in DocIds |-> NewResume]
  /\ nTerminal = [d \in DocIds |-> 0]
  /\ InitLocals
  /\ lab = LabOff
  /\ up = UpOff
  /\ req = ReqOff
  /\ poll = PollOff

Status(d) == docs[d].processingStatus

\* resumeDoc.updateOne(fields) applied by the store for invocation p
ApplyUpdate(p, fields) ==
  LET d == resumeId[p]
      old == docs[d]
      new == [k \in DOMAIN old |-> IF k \in DOMAIN fields THEN fields[k] ELSE old[k]]
  IN /\ docs' = [docs EXCEPT ![d] = new]
     /\ nWrites' = [nWrites EXCEPT ![p] = @ + 1]
     /\ nTerminal' = [nTerminal EXCEPT ![d] =
            IF "processingStatus" \in DOMAIN fields
               /\ fields["processingStatus"] \in {"completed", "error"}
            THEN @ + 1 ELSE @]

NoUpdate == UNCHANGED <<docs, nWrites, nTerminal>>

\* control passes to the catch block of line 267 with this message
Throw(p, msg) ==
  /\ pc' = [pc EXCEPT ![p] = "catch"]
  /\ caught' = [caught EXCEPT ![p] = Some(msg)]

\* the invocation returns; its locals, and the count of its calls, are gone
Return(p) ==
  /\ pc' = [pc EXCEPT ![p] = "done"]
  /\ caught' = [caught EXCEPT ![p] = None]
  /\ result' = [result EXCEPT ![p] = None]
  /\ lastOutcome' = [lastOutcome EXCEPT ![p] = None]
  /\ attempt' = [attempt EXCEPT ![p] = 0]
  /\ nCalls' = [nCalls EXCEPT ![p] = 0]
  /\ noJob' = [noJob EXCEPT ![p] = FALSE]

\* A status check that lets a document in processing through.
AlreadyHandledCompletedOnly(status) == status = "completed"

\* line 176: the document is already completed or being processed
AlreadyHandled(status) == status = "completed" \/ status = "processing"

\* ---------------------------------------------------------------- actions
\* A caller invokes triggerGeminiAnalysis(id).  Invocations are numbered in
\* the order they start.
Trigger(p, id) ==
  /\ pc[p] = "idle"
  /\ \A q \in Invocations : q < p => pc[q] # "idle"
  /\ pc' = [pc EXCEPT ![p] = "findResume"]
  /\ resumeId' = [resumeId EXCEPT ![p] = id]
  /\ UNCHANGED <<docs, resumeDoc, attempt, caught, result, lastOutcome,
                 nCalls, nWrites, errWriteFailed, noJob, nTerminal>>
  /\ UNCHANGED <<lab, up, req, poll>>

\* lines 170-182: Resume.findById answers (or fails), then the status check
FindResume(p) ==
  /\ pc[p] = "findResume"
  /\ \E ok \in BOOLEAN :
       IF ~ok
       THEN /\ Throw(p, StoreErrMsg)
            /\ UNCHANGED <<resumeDoc, result, lastOutcome, attempt, nCalls, noJob>>
       ELSE IF resumeId[p] \notin DOMAIN docs
       THEN /\ Return(p)
            /\ UNCHANGED resumeDoc
       ELSE /\ resumeDoc' = [resumeDoc EXCEPT ![p] = Some(Status(resumeId[p]))]
            /\ IF AlreadyHandled(Status(resumeId[p]))
               THEN Return(p)
               ELSE /\ pc' = [pc EXCEPT ![p] = "findJob"]
                    /\ UNCHANGED <<caught, result, lastOutcome, attempt, nCalls, noJob>>
  /\ NoUpdate
  /\ UNCHANGED <<resumeId, errWriteFailed>>
  /\ UNCHANGED <<lab, up, req, poll>>

\* lines 184-185: JobDescription.findById answers a job, null, or fails
FindJob(p) ==
  /\ pc[p] = "findJob"
  /\ \E answer \in {"job", "null", "fails"} :
       CASE answer = "fails" -> /\ Throw(p, StoreErrMsg)
                                /\ UNCHANGED noJob
         [] answer = "null" -> /\ pc' = [pc EXCEPT ![p] = "jobMissing"]
                               /\ noJob' = [noJob EXCEPT ![p] = TRUE]
                               /\ UNCHANGED caught
         [] answer = "job"  -> /\ pc' = [pc EXCEPT ![p] = "setProcessing"]
                               /\ UNCHANGED <<caught, noJob>>
  /\ NoUpdate
  /\ UNCHANGED <<resumeId, resumeDoc, attempt, result, lastOutcome, nCalls,
                 errWriteFailed>>
  /\ UNCHANGED <<lab, up, req, poll>>

\* An update for a missing job that marks the document as being processed.
JobMissingUpdateAsProcessing ==
  [processingStatus |-> "processing", errorDetails |-> Some(JobMissingMsg)]

\* lines 190-193: the fields of the update for a missing job
JobMissingUpdate ==
  [processingStatus |-> "error", errorDetails |-> Some(JobMissingMsg)]

\* lines 190-194: the job is missing
JobMissing(p) ==
  /\ pc[p] = "jobMissing"
  /\ \E ok \in BOOLEAN :
       IF ok
       THEN /\ ApplyUpdate(p, JobMissingUpdate)
            /\ Return(p)
       ELSE /\ NoUpdate
            /\ Throw(p, StoreErrMsg)
            /\ UNCHANGED <<result, lastOutcome, attempt, nCalls, noJob>>
  /\ UNCHANGED <<resumeId, resumeDoc, errWriteFailed>>
  /\ UNCHANGED <<lab, up, req, poll>>

\* lines 197 and 93-96: status processing is written, then analyzeWithGemini
\* starts and asks for the model
SetProcessing(p) ==
  /\ pc[p] = "setProcessing"
  /\ \E ok \in BOOLEAN, modelReady \in BOOLEAN :
       IF ~ok
       THEN /\ NoUpdate
            /\ Throw(p, StoreErrMsg)
       ELSE /\ ApplyUpdate(p, [processingStatus |-> "processing",
                               errorDetails |-> None])
            /\ IF modelReady
               THEN /\ pc' = [pc EXCEPT ![p] = "call"]
                    /\ UNCHANGED caught
               ELSE Throw(p, NoModelMsg)
  /\ attempt' = [attempt EXCEPT ![p] = 0]
  /\ UNCHANGED <<resumeId, resumeDoc, result, lastOutcome, nCalls, errWriteFailed,
                 noJob>>
  /\ UNCHANGED <<lab, up, req, poll>>

\* A loop that forgets to count the failed attempt.
NextAttemptForgotten(a) == a

\* line 153: attempt++
NextAttempt(a) == a + 1

\* What one turn of the loop makes of each outcome of the call: the value
\* returned at line 140 and scrubbed at lines 206-253, or the error thrown.
Attempted == [o \in ModelOutcomes |-> TryBody(o)]
Scrubbed  == [o \in {x \in ModelOutcomes : Attempted[x].ok} |-> Scrub(Attempted[o].val)]

\* lines 206-253: the scrubbed result s is kept, or what the scrubbing throws
\* is thrown
Scrubs(p, s) ==
  IF s.ok
  THEN /\ result' = [result EXCEPT ![p] = Some(s.val)]
       /\ pc' = [pc EXCEPT ![p] = "setCompleted"]
       /\ UNCHANGED caught
  ELSE /\ Throw(p, s.err.msg)
       /\ UNCHANGED result

\* lines 108-159: the outcome o of generateContent; r is what the try block
\* of lines 108-140 made of it, and lines 141-158 catch what it threw
Handles(p, o, r) ==
  IF r.ok
  THEN /\ lastOutcome' = [lastOutcome EXCEPT ![p] = Some(o)]
       /\ UNCHANGED attempt
       /\ Scrubs(p, Scrubbed[o])
  ELSE IF IsQuotaError(r.err)
  THEN /\ Throw(p, QuotaMsg)
       /\ lastOutcome' = [lastOutcome EXCEPT ![p] = Some(o)]
       /\ UNCHANGED <<attempt, result>>
  ELSE /\ attempt' = [attempt EXCEPT ![p] = NextAttempt(@)]
       /\ UNCHANGED result
       /\ IF RetriesExhausted(NextAttempt(attempt[p]))
          THEN /\ Throw(p, FailedAfterMsg(r.err.msg))
               /\ lastOutcome' = [lastOutcome EXCEPT ![p] = Some(o)]
          ELSE IF LoopGuard(NextAttempt(attempt[p]))
          THEN UNCHANGED <<pc, caught, lastOutcome>>
          ELSE /\ Throw(p, AllRetriesMsg)
               /\ lastOutcome' = [lastOutcome EXCEPT ![p] = Some(o)]

\* lines 108-159, one turn of the loop: generateContent is called and its
\* outcome handled; on success lines 206-253 scrub the result.  The backoff
\* timer of line 157 changes no state; the next turn is the next ModelCall.
ModelCall(p) ==
  /\ pc[p] = "call"
  /\ LoopGuard(attempt[p])
  /\ nCalls[p] < CallCap
  /\ nCalls' = [nCalls EXCEPT ![p] = @ + 1]
  /\ \E o \in ModelOutcomes : Handles(p, o, Attempted[o])
  /\ NoUpdate
  /\ UNCHANGED <<resumeId, resumeDoc, errWriteFailed, noJob>>
  /\ UNCHANGED <<lab, up, req, poll>>

\* lines 255-260: the fields of the update that stores the result
CompletedUpdate(updatedAnalysisResult) ==
  [geminiAnalysis |-> Some(updatedAnalysisResult),
   score |-> Some(Score(Field(updatedAnalysisResult, "fitScore"))),
   processingStatus |-> "completed",
   errorDetails |-> None]

\* lines 255-260: the result is stored
SetCompleted(p) ==
  /\ pc[p] = "setCompleted"
  /\ \E ok \in BOOLEAN :
       IF ok
       THEN /\ ApplyUpdate(p, CompletedUpdate(result[p][1]))
            /\ Return(p)
       ELSE /\ NoUpdate
            /\ Throw(p, StoreErrMsg)
            /\ result' = [result EXCEPT ![p] = None]
            /\ lastOutcome' = [lastOutcome EXCEPT ![p] = None]
            /\ UNCHANGED <<attempt, nCalls, noJob>>
  /\ UNCHANGED <<resumeId, resumeDoc, errWriteFailed>>
  /\ UNCHANGED <<lab, up, req, poll>>

\* line 276: error.message || "Unknown processing error"
ErrorDetails(msg) == IF msg.text = "" THEN UnknownMsg ELSE msg

\* A catch block that logs and never updates the document.
HasResumeDocNever(p) == FALSE

\* line 273: if (resumeDoc)
HasResumeDoc(p) == resumeDoc[p] # None

\* A catch block that tries the update again when the store rejects it.
CatchRetrying(p) ==
  /\ pc[p] = "catch"
  /\ IF ~HasResumeDoc(p)
     THEN /\ NoUpdate
          /\ UNCHANGED errWriteFailed
          /\ Return(p)
     ELSE \E ok \in BOOLEAN :
            IF ok
            THEN /\ ApplyUpdate(p, [processingStatus |-> "error",
                                    errorDetails |-> Some(ErrorDetails(caught[p][1]))])
                 /\ UNCHANGED errWriteFailed
                 /\ Return(p)
            ELSE /\ NoUpdate
                 /\ errWriteFailed' = [errWriteFailed EXCEPT ![p] = TRUE]
                 /\ UNCHANGED <<pc, caught, result, lastOutcome, attempt, nCalls, noJob>>
  /\ UNCHANGED <<resumeId, resumeDoc>>
  /\ UNCHANGED <<lab, up, req, poll>>

\* lines 267-279: the catch block; a rejected update is only logged
Catch(p) ==
  /\ pc[p] = "catch"
  /\ IF ~HasResumeDoc(p)
     THEN /\ NoUpdate
          /\ UNCHANGED errWriteFailed
     ELSE \E ok \in BOOLEAN :
            IF ok
            THEN /\ ApplyUpdate(p, [processingStatus |-> "error",
                                    errorDetails |-> Some(ErrorDetails(caught[p][1]))])
                 /\ UNCHANGED errWriteFailed
            ELSE /\ NoUpdate
                 /\ errWriteFailed' = [errWriteFailed EXCEPT ![p] = TRUE]
  /\ Return(p)
  /\ UNCHANGED <<resumeId, resumeDoc>>
  /\ UNCHANGED <<lab, up, req, poll>>

Step(p) ==
  \/ FindResume(p)
  \/ FindJob(p)
  \/ JobMissing(p)
  \/ SetProcessing(p)
  \/ ModelCall(p)
  \/ SetCompleted(p)
  \/ Catch(p)

Next ==
  \/ \E p \in Invocations, id \in (DOMAIN docs) \cup {MissingId} : Trigger(p, id)
  \/ \E p \in Invocations : Step(p)

Spec == Init /\ [][Next]_vars

\* Every started invocation keeps running: each awaited call returns or fails.
FairSpec == Spec /\ \A p \in Invocations : WF_vars(Step(p))

\* ------------------------------------------------- one reply, followed alone
\* The texts the scrub inspects.
TxtReact     == <<"R", "e", "a", "c", "t">>
TxtEmail     == <<"a", "@", "b", ".", "c", "o">>
TxtInEmail   == <<"S", "Q", "L", " ", "a", "@", "b", ".", "c", "o", " ", "x">>
TxtLongTld   == <<"a", "@", "b", ".", "s", "o", "l", "u", "t", "i", "o", "n", "s">>
TxtPhone     == <<"(", "5", "5", "5", ")", " ", "1", "2", "3", "-", "4", "5", "6", "7">>
TxtBoth      == <<"a", "@", "b", ".", "c", "o", "(", "5", "5", "5", ")", "1", "2", "3",
                  "-", "4", "5", "6", "7">>
TxtDigitMail == <<"2", "0", "2", "5", "5", "5", "0", "1", "2", "3", "@", "b", ".", "c", "o">>
TxtTwoMails  == <<"a", "@", "b", ".", "c", "o", ",", "c", "@", "d", ".", "u", "k">>

SkillLists ==
  { <<JStr(t)>> : t \in {TxtReact, TxtEmail, TxtInEmail, TxtLongTld, TxtPhone,
                         TxtBoth, TxtDigitMail, TxtTwoMails} }
  \cup { <<JStr(TxtEmail), JStr(TxtReact), JStr(TxtEmail)>>,
         <<JNum(2025550123)>>, <<JNum(7), JNull>>, <<>> }

EducationLists ==
  { <<JObj([degree |-> JStr(TxtReact), institution |-> JStr(t)])>> :
      t \in {TxtReact, TxtEmail, TxtPhone} }
  \cup { <<JObj([institution |-> JStr(TxtEmail)]), JObj([institution |-> JStr(TxtInEmail)])>>,
         <<JObj([degree |-> JStr(TxtReact)]), JStr(TxtEmail)>>,
         <<JNull>> }

Justifications == { JStr(TxtReact), JStr(TxtInEmail), JStr(TxtPhone), JNum(7) }

WarningValues ==
  { JArr(<<>>), JArr(<<"Missing Node">>), JArr(<<"Missing Node", "Missing Node">>),
    JArr(<<JustWarning("Email"), "Missing Node">>), JNull, JNum(5),
    JStr(<<"N", "o", "n", "e">>) }

FitScores ==
  { JNum(6), JNum(0), JNum(10), JNum(85), JNum(0 - 1), JNull, JBool(TRUE),
    JStr(<<"8">>), JStr(<<"8", "/", "1", "0">>), JStr(<<"-", "1">>) }

\* An object with the fields that are given as Some(value).
WithFields(pairs) ==
  [k \in {q \in DOMAIN pairs : pairs[q] # None} |-> pairs[k][1]]

Optional(S) == {None} \cup {Some(x) : x \in S}

\* Results analyzeWithGemini can return: parsed objects with a fitScore.
AcceptedResults ==
  { WithFields([fitScore |-> Some(JNum(6)), skills |-> sk, education |-> ed,
                justification |-> ju, warnings |-> wa]) :
      sk \in Optional({JArr(l) : l \in SkillLists}),
      ed \in Optional({JArr(l) : l \in EducationLists}),
      ju \in Optional(Justifications),
      wa \in Optional(WarningValues) }
  \cup { WithFields([fitScore |-> Some(f), skills |-> Some(JArr(<<JStr(TxtReact)>>))]) :
           f \in FitScores }

\* Replies: a JSON object, in code-fence markers or not, with prose around.
ProseBefore == { <<>>, <<Prose, WS>>, <<Prose, LB, Prose, RB, WS>> }
ProseAfter  == { <<>>, <<WS, Prose>>, <<WS, Prose, LB, Prose, RB>> }
ObjectTexts ==
  { <<LB, MFit, RB>>,
    <<LB, WS, MFit, Comma, WS, MSkills, WS, RB>>,
    <<LB, KeyEdu, LB, RB, Comma, MFit, RB>>,
    <<LB, MSkills, RB>>,
    <<LB, MFit, Comma, RB>> }

Fenced(pre, obj, post) == pre \o <<FenceJson, WS>> \o obj \o <<WS, Fence>> \o post

\* Replies in which no '{' is followed by a '}'.
MarkerlessTexts ==
  { <<>>, <<Prose>>, <<RB, Prose, LB>>, <<FenceJson, WS, Fence>>, <<LB, MFit>>,
    <<WS, MFit, RB, WS>> }

LabReplies ==
  { [stage |-> "reply", pre |-> pre, obj |-> obj, post |-> post,
     text |-> IF fenced THEN Fenced(pre, obj, post) ELSE pre \o obj \o post] :
      pre \in ProseBefore, obj \in ObjectTexts, post \in ProseAfter,
      fenced \in BOOLEAN }
  \cup { [stage |-> "reply", pre |-> <<>>, obj |-> <<>>, post |-> <<>>, text |-> t] :
           t \in MarkerlessTexts }

LabInit ==
  /\ docs = [d \in DocIds |-> NewResume]
  /\ nTerminal = [d \in DocIds |-> 0]
  /\ InitLocals
  /\ up = UpOff
  /\ req = ReqOff
  /\ poll = PollOff
  /\ \/ lab \in LabReplies
     \/ lab \in { [stage |-> "accepted", reply |-> LabOff, result |-> r] :
                    r \in AcceptedResults }

\* The variables of the pipeline, which stands still meanwhile.
PipelineVars == <<docs, pc, resumeId, resumeDoc, attempt, caught, result,
                  lastOutcome, nCalls, nWrites, errWriteFailed, noJob, nTerminal,
                  up, req, poll>>

\* lines 112-140 for the reply
LabTry ==
  /\ lab.stage = "reply"
  /\ LET r == TryBody([kind |-> "reply", text |-> lab.text]) IN
     lab' = IF r.ok
            THEN [stage |-> "accepted", reply |-> lab, result |-> r.val]
            ELSE [stage |-> "rejected", reply |-> lab, err |-> r.err]
  /\ UNCHANGED PipelineVars

\* lines 206-253 for the result
LabScrub ==
  /\ lab.stage = "accepted"
  /\ lab' = [stage |-> "scrubbed", reply |-> lab.reply, result |-> lab.result,
             out |-> Scrub(lab.result)]
  /\ UNCHANGED PipelineVars

\* lines 206-253 once more, for the scrubbed result
LabScrubAgain ==
  /\ lab.stage = "scrubbed"
  /\ lab.out.ok
  /\ lab' = [stage |-> "rescrubbed", reply |-> lab.reply, result |-> lab.result,
             out |-> lab.out, again |-> Scrub(lab.out.val)]
  /\ UNCHANGED PipelineVars

\* lines 255-260 for the scrubbed result
LabStore ==
  /\ lab.stage = "scrubbed"
  /\ lab.out.ok
  /\ lab' = [stage |-> "stored", reply |-> lab.reply, result |-> lab.result,
             out |-> lab.out, update |-> CompletedUpdate(lab.out.val)]
  /\ UNCHANGED PipelineVars

LabNext ==
  \/ LabTry
  \/ LabScrub
  \/ LabScrubAgain
  \/ LabStore

LabSpec == LabInit /\ [][LabNext]_vars

\* --------------------------------------------------------- file validation
\* src/server/utils/fileValidator.ts.  A file name is a sequence of
\* characters, a buffer a sequence of bytes, a media type or an error
\* message a plain string, compared whole.

\* line 9
MAX_SIZE == 5 * 1024 * 1024

\* line 10
MIN_SIZE == 1024

\* line 11
ALLOWED_EXTENSIONS == {<<".", "p", "d", "f">>, <<".", "d", "o", "c">>, <<".", "d", "o", "c", "x">>}

MimePdf  == "application/pdf"
MimeDoc  == "application/msword"
MimeDocx == "application/vnd.openxmlformats-officedocument.wordprocessingml.document"

\* lines 12-16
ALLOWED_MIME_TYPES == {MimePdf, MimeDoc, MimeDocx}

\* lines 19-23
FILE_SIGNATURES ==
  [PDF  |-> <<37, 80, 68, 70>>,
   DOC  |-> <<208, 207, 17, 224, 161, 177, 26, 225>>,
   DOCX |-> <<80, 75, 3, 4>>]

\* { isValid: true } and { isValid: false, error }
Valid == [isValid |-> TRUE]
Invalid(error) == [isValid |-> FALSE, error |-> error]

\* String.prototype.toLowerCase, one character
LowerChar(c) ==
  CASE c = "A" -> "a" [] c = "B" -> "b" [] c = "C" -> "c" [] c = "D" -> "d"
    [] c = "E" -> "e" [] c = "F" -> "f" [] c = "G" -> "g" [] c = "H" -> "h"
    [] c = "I" -> "i" [] c = "J" -> "j" [] c = "K" -> "k" [] c = "L" -> "l"
    [] c = "M" -> "m" [] c = "N" -> "n" [] c = "O" -> "o" [] c = "P" -> "p"
    [] c = "Q" -> "q" [] c = "R" -> "r" [] c = "S" -> "s" [] c = "T" -> "t"
    [] c = "U" -> "u" [] c = "V" -> "v" [] c = "W" -> "w" [] c = "X" -> "x"
    [] c = "Y" -> "y" [] c = "Z" -> "z" [] OTHER -> c

toLowerCase(s) == [i \in 1..Len(s) |-> LowerChar(s[i])]

\* String.prototype.includes and Buffer contents: piece occurs in s
StrIncludes(s, piece) ==
  \E i \in 1..(Len(s) - Len(piece) + 1) : SubSeq(s, i, i + Len(piece) - 1) = piece

\* String.prototype.split('.')
RECURSIVE Split(_)
Split(s) ==
  IF \A i \in 1..Len(s) : s[i] # "."
  THEN <<s>>
  ELSE LET d == CHOOSE i \in 1..Len(s) :
                  s[i] = "." /\ \A j \in 1..(i - 1) : s[j] # "."
       IN <<SubSeq(s, 1, d - 1)>> \o Split(SubSeq(s, d + 1, Len(s)))

\* path.extname (posix): from the last dot of the last path segment to its
\* end; empty when there is no dot, when the dot opens the segment, or when
\* the segment is '..'
LastOf(s, c) ==
  IF \A i \in 1..Len(s) : s[i] # c THEN 0
  ELSE CHOOSE i \in 1..Len(s) : s[i] = c /\ \A j \in (i + 1)..Len(s) : s[j] # c

\* p without its trailing slashes
Unslashed(p) ==
  IF \A i \in 1..Len(p) : p[i] = "/" THEN <<>>
  ELSE SubSeq(p, 1, CHOOSE i \in 1..Len(p) :
                      p[i] # "/" /\ \A j \in (i + 1)..Len(p) : p[j] = "/")

\* the last path segment
Segment(p) == SubSeq(p, LastOf(p, "/") + 1, Len(p))

FromDot(base, dot) ==
  IF dot = 0 \/ dot = 1 \/ base = <<".", ".">> THEN <<>>
  ELSE SubSeq(base, dot, Len(base))

ExtOf(base) == FromDot(base, LastOf(base, "."))

extname(p) == ExtOf(Segment(Unslashed(p)))

\* Number.prototype.toFixed(2) of fileSize / (1024 * 1024)
SizeMB(fileSize) ==
  LET h == (fileSize * 200 + 1048576) \div 2097152
  IN ToString(h \div 100) \o "." \o ToString((h \div 10) % 10) \o ToString(h % 10)

\* lines 30-48
validateFileSize(fileSize) ==
  IF fileSize > MAX_SIZE
  THEN Invalid("File size (" \o SizeMB(fileSize)
                 \o "MB) exceeds maximum allowed size of "
                 \o ToString(MAX_SIZE \div 1048576) \o "MB.")
  ELSE IF fileSize < MIN_SIZE
       THEN Invalid("File is too small or appears to be empty.")
       ELSE Valid

\* lines 50-61
validateFileExtension(filename) ==
  IF toLowerCase(extname(filename)) \notin ALLOWED_EXTENSIONS
  THEN Invalid("Invalid file extension. Only .pdf, .doc, .docx files are allowed.")
  ELSE Valid

\* lines 63-72
validateMimeType(mimetype) ==
  IF mimetype \notin ALLOWED_MIME_TYPES
  THEN Invalid("Invalid file type. Only PDF, DOC, and DOCX files are supported.")
  ELSE Valid

\* fileBuffer.subarray(0, n)
Subarray(fileBuffer, n) ==
  SubSeq(fileBuffer, 1, IF Len(fileBuffer) < n THEN Len(fileBuffer) ELSE n)

\* A reason that names neither the extension nor the format.
FormatMismatchUnnamed(ext, format) == "File content does not match its extension."

\* lines 91, 101, 111
FormatMismatch(ext, format) ==
  "File extension is " \o ext \o " but file content does not match " \o format \o " format."

\* lines 85-118: the format expected for ext against the first bytes
SignatureOf(ext, firstBytes) ==
  CASE ext = <<".", "p", "d", "f">> ->
          IF Subarray(firstBytes, 4) = FILE_SIGNATURES.PDF THEN Valid
          ELSE Invalid(FormatMismatch(".pdf", "PDF"))
     [] ext = <<".", "d", "o", "c">> ->
          IF firstBytes = FILE_SIGNATURES.DOC THEN Valid
          ELSE Invalid(FormatMismatch(".doc", "DOC"))
     [] ext = <<".", "d", "o", "c", "x">> ->
          IF Subarray(firstBytes, 4) = FILE_SIGNATURES.DOCX THEN Valid
          ELSE Invalid(FormatMismatch(".docx", "DOCX"))
     [] OTHER -> Invalid("Unsupported file type.")

\* lines 74-119
validateFileSignature(fileBuffer, filename) ==
  IF Len(fileBuffer) < 8
  THEN Invalid("File is corrupted or incomplete.")
  ELSE SignatureOf(toLowerCase(extname(filename)), Subarray(fileBuffer, 8))

\* line 146
suspiciousExtensions ==
  {<<"e", "x", "e">>, <<"b", "a", "t">>, <<"c", "m", "d">>, <<"s", "h">>, <<"j", "s">>, <<"v", "b", "s">>, <<"s", "c", "r">>, <<"p", "h", "p">>, <<"a", "s", "p">>}

\* line 145: the segment before the last
Suspect(parts) == {parts[Len(parts) - 1]}

\* lines 121-157; the character NUL is written "NUL"
validateFileName(filename) ==
  IF StrIncludes(filename, <<"NUL">>)
  THEN Invalid("File name contains invalid characters.")
  ELSE IF Len(filename) > 255
  THEN Invalid("File name is too long (max 255 characters).")
  ELSE IF \/ StrIncludes(filename, <<".", ".">>)
          \/ StrIncludes(filename, <<"/">>)
          \/ StrIncludes(filename, <<"\\">>)
  THEN Invalid("File name contains invalid path characters.")
  ELSE LET parts == Split(filename) IN
       IF Len(parts) > 2
          /\ \E part \in Suspect(parts) : toLowerCase(part) \in suspiciousExtensions
       THEN Invalid("File name contains potentially dangerous extensions.")
       ELSE Valid

\* The checks with the signature looked at first.
ChecksSignatureFirst(file) ==
  <<validateFileSignature(file.buffer, file.originalname),
    validateFileName(file.originalname),
    validateFileSize(file.size),
    validateFileExtension(file.originalname),
    validateMimeType(file.mimetype)>>

\* The five checks of validateResumeFile, in the order of lines 160-173.
Checks(file) ==
  <<validateFileName(file.originalname),
    validateFileSize(file.size),
    validateFileExtension(file.originalname),
    validateMimeType(file.mimetype),
    validateFileSignature(file.buffer, file.originalname)>>

\* lines 160-175: each check returns at once when it fails
FirstInvalid(checks) ==
  IF \A i \in 1..Len(checks) : checks[i].isValid THEN Valid
  ELSE checks[CHOOSE i \in 1..Len(checks) :
                ~checks[i].isValid /\ \A j \in 1..(i - 1) : checks[j].isValid]

\* lines 159-176
validateResumeFile(file) == FirstInvalid(Checks(file))

\* '<script' and 'javascript:' as bytes
ScriptBytes     == <<60, 115, 99, 114, 105, 112, 116>>
JavascriptBytes == <<106, 97, 118, 97, 115, 99, 114, 105, 112, 116, 58>>

\* lines 178-203
checkForMaliciousContent(fileBuffer) ==
  LET content == Subarray(fileBuffer, 1024) IN
  IF StrIncludes(content, ScriptBytes) \/ StrIncludes(content, JavascriptBytes)
  THEN Invalid("File contains potentially malicious content.")
  ELSE IF \E signature \in {<<77, 90>>, <<127, 69, 76, 70>>} :
            Subarray(fileBuffer, Len(signature)) = signature
       THEN Invalid("File appears to be an executable, which is not allowed.")
       ELSE Valid

\* ------------------------------------------- one request, followed alone
\* File names, sizes, media types and buffers of the files validated.
FileNames ==
  {<<"r", "e", "s", "u", "m", "e", ".", "p", "d", "f">>,
   <<"r", "e", "s", "u", "m", "e", ".", "d", "o", "c">>,
   <<"r", "e", "s", "u", "m", "e", ".", "d", "o", "c", "x">>,
   <<"R", "E", "S", "U", "M", "E", ".", "P", "D", "F">>,
   <<"r", "e", "s", "u", "m", "e", ".", "t", "x", "t">>,
   <<"r", "e", "s", "u", "m", "e">>,
   <<".", "p", "d", "f">>,
   <<"j", "o", "h", "n", ".", "d", "o", "e", ".", "r", "e", "s", "u", "m", "e", ".", "p", "d", "f">>,
   <<"r", "e", "s", "u", "m", "e", ".", "e", "x", "e", ".", "p", "d", "f">>,
   <<"r", "e", "s", "u", "m", "e", ".", "E", "X", "E", ".", "p", "d", "f">>,
   <<"r", "e", "s", "u", "m", "e", ".", "e", "x", "e", ".", "b", "a", "c", "k", "u", "p", ".", "p", "d", "f">>,
   <<"c", "v", ".", "j", "s", ".", "v", "2", ".", "d", "o", "c", "x">>,
   <<"r", "e", "s", "u", "m", "e", ".", "p", "d", "f", ".", "e", "x", "e">>,
   <<"r", "e", "s", "u", "m", "e", ".", ".", "p", "d", "f">>,
   <<"r", "e", "s", "u", "m", "e", "NUL", ".", "p", "d", "f">>,
   <<".", ".", "/", "e", "t", "c", "/", "p", "a", "s", "s", "w", "d", ".", "p", "d", "f">>,
   <<"a", "\\", "b", ".", "d", "o", "c">>,
   [i \in 1..256 |-> "a"] \o <<".", "p", "d", "f">>}

FileSizes == {0, 1023, 1024, 2097152, 5242880, 5242881, 5373952}

MimeTypes == ALLOWED_MIME_TYPES \cup {"text/plain"}

Buffers ==
  {<<37, 80, 68, 70, 45, 49, 46, 52>>,
   <<208, 207, 17, 224, 161, 177, 26, 225>>,
   <<80, 75, 3, 4, 20, 0, 6, 0>>,
   <<208, 207, 17, 224, 0, 0, 0, 0>>,
   <<37, 80, 68, 70>>,
   <<0, 0>>,
   <<80, 108, 97, 105, 110, 32, 116, 101, 120, 116>>,
   <<77, 90, 144, 0, 3, 0, 0, 0>>,
   <<60, 115, 99, 114, 105, 112, 116, 62>>,
   <<37, 80, 68, 70, 60, 115, 99, 114, 105, 112, 116>>}

RequestFiles ==
  [originalname : FileNames, size : FileSizes, mimetype : MimeTypes, buffer : Buffers]

\* The Resume documents of one job, in the order they were saved: scores,
\* whether the analysis left warnings, and statuses.
ScoreLists == {<<9, 7, 7, 5, 2>>, <<2, 9, 5, 7, 7>>, <<6>>, <<3, 8>>, <<>>}

JobResumes ==
  UNION { { [k \in 1..Len(scores) |->
               [id |-> k, score |-> scores[k], warnings |-> warnings[k],
                processingStatus |-> IF k = pending THEN "processing" ELSE "completed"]] :
            warnings \in [1..Len(scores) -> {0, 1}], pending \in {0, 2} } :
          scores \in ScoreLists }

\* GET /job/:jobId/candidates: whose job it is, and the query as parseInt
\* reads it.  A missing parameter parses to NaN, which is falsy as 0 is and
\* is written 0.
CandidateRequests ==
  [stage : {"candidates"}, job : {"own", "other", "none"}, resumes : JobResumes,
   page : {0, 2}, limit : {0, 2}]

\* Largest number of files an upload request of the model carries.
MaxFilesSent == 11

\* A well-formed PDF, a text file, a PDF that carries a script.
GoodPdf ==
  [originalname |-> <<"r", "e", "s", "u", "m", "e", ".", "p", "d", "f">>,
   size |-> 2097152, mimetype |-> MimePdf,
   buffer |-> <<37, 80, 68, 70, 45, 49, 46, 52>>]

TextFile ==
  [originalname |-> <<"r", "e", "s", "u", "m", "e", ".", "t", "x", "t">>,
   size |-> 2097152, mimetype |-> "text/plain",
   buffer |-> <<80, 108, 97, 105, 110, 32, 116, 101, 120, 116>>]

ScriptPdf ==
  [originalname |-> <<"r", "e", "s", "u", "m", "e", ".", "p", "d", "f">>,
   size |-> 2097152, mimetype |-> MimePdf,
   buffer |-> <<37, 80, 68, 70, 60, 115, 99, 114, 105, 112, 116>>]

\* A file above the size limit.
BigFile ==
  [originalname |-> <<"b", "i", "g", ".", "p", "d", "f">>, size |-> 5242881,
   mimetype |-> MimePdf, buffer |-> <<37, 80, 68, 70, 45, 49, 46, 52>>]

\* POST /upload with n files in field 'resumeFiles': the file at position at
\* is any file, the others are well-formed PDFs; the body has no text field,
\* the field jobId alone, or jobId among eleven fields.
UploadRequests ==
  { [stage |-> "upload", jobId |-> fields > 0, fields |-> fields,
     files |-> [i \in 1..n |-> IF i = at THEN f ELSE GoodPdf]] :
      n \in 0..MaxFilesSent, at \in 1..2, f \in {GoodPdf, TextFile, ScriptPdf, BigFile},
      fields \in {0, 1, 11} }

RequestInit ==
  /\ docs = [d \in DocIds |-> NewResume]
  /\ nTerminal = [d \in DocIds |-> 0]
  /\ InitLocals
  /\ lab = LabOff
  /\ up = UpOff
  /\ poll = PollOff
  /\ \/ req \in { [stage |-> "file", file |-> f] : f \in RequestFiles }
     \/ req \in CandidateRequests
     \/ req \in UploadRequests

\* Everything but the request, which stands still meanwhile.
OutsideRequest == <<docs, pc, resumeId, resumeDoc, attempt, caught, result,
                    lastOutcome, nCalls, nWrites, errWriteFailed, noJob, nTerminal,
                    lab, up, poll>>

\* validateResumeFile(file)
RunValidateResumeFile ==
  /\ req.stage = "file"
  /\ req' = [stage |-> "validated", file |-> req.file,
             result |-> validateResumeFile(req.file)]
  /\ UNCHANGED OutsideRequest

\* validateFileSignature(file.buffer, file.originalname)
RunValidateFileSignature ==
  /\ req.stage = "file"
  /\ req' = [stage |-> "signature", file |-> req.file,
             result |-> validateFileSignature(req.file.buffer, req.file.originalname)]
  /\ UNCHANGED OutsideRequest

\* validateFileName(file.originalname)
RunValidateFileName ==
  /\ req.stage = "file"
  /\ req' = [stage |-> "name", file |-> req.file,
             result |-> validateFileName(req.file.originalname)]
  /\ UNCHANGED OutsideRequest

\* parseInt(x, 10) || d
OrDefault(parsed, d) == IF parsed = 0 THEN d ELSE parsed

\* Resume.find({ jobId, processingStatus: 'completed' }).sort({ score: -1 }):
\* the orders the store may answer in; documents of equal score come in any
\* order
SortedByScore(resumes) ==
  LET completed == { k \in 1..Len(resumes) : resumes[k].processingStatus = "completed" }
      n == Cardinality(completed)
  IN { [i \in 1..n |-> resumes[order[i]]] :
         order \in { o \in [1..n -> completed] :
                       /\ \A i, j \in 1..n : i # j => o[i] # o[j]
                       /\ \A i \in 1..(n - 1) :
                            resumes[o[i]].score >= resumes[o[i + 1]].score } }

\* .skip(skip).limit(limit)
Page(sorted, skip, limit) ==
  SubSeq(sorted, skip + 1, IF skip + limit < Len(sorted) THEN skip + limit ELSE Len(sorted))

\* lines 168-181: the candidate made of a document
Candidate(doc) ==
  [candidateId |-> doc.id, score |-> doc.score, isFlagged |-> doc.warnings > 0]

\* catchAsync: a rejected store call is passed to next, and the request is
\* answered by the error handler
Rejected(request) == [stage |-> "listed", request |-> request, status |-> 500]

\* lines 146-152: JobDescription.findById(jobId) answers, or rejects
JobFindById ==
  /\ req.stage = "candidates"
  /\ \/ req' = Rejected(req)
     \/ req' = CASE req.job = "none" ->
                     [stage |-> "listed", request |-> req, status |-> 404]
                  [] req.job = "other" ->
                     [stage |-> "listed", request |-> req, status |-> 403]
                  [] OTHER ->
                     [stage |-> "find", request |-> req, resumes |-> req.resumes]
  /\ UNCHANGED OutsideRequest

\* lines 155-161: Resume.find(...).sort(...).skip(skip).limit(limit) answers
\* from the store as it is now, or rejects
ResumeFind ==
  /\ req.stage = "find"
  /\ \/ req' = Rejected(req.request)
     \/ \E sorted \in SortedByScore(req.resumes) :
          req' = [stage |-> "count", request |-> req.request, resumes |-> req.resumes,
                  found |-> Page(sorted,
                                 (OrDefault(req.request.page, 1) - 1)
                                   * OrDefault(req.request.limit, 10),
                                 OrDefault(req.request.limit, 10))]
  /\ UNCHANGED OutsideRequest

\* lines 163-189: Resume.countDocuments(...) answers from the store as it is
\* now, or rejects; then the response
ResumeCountDocuments ==
  /\ req.stage = "count"
  /\ \/ req' = Rejected(req.request)
     \/ LET total == Cardinality({ k \in 1..Len(req.resumes) :
                                    req.resumes[k].processingStatus = "completed" })
            limit == OrDefault(req.request.limit, 10)
        IN req' = [stage |-> "listed", request |-> req.request, status |-> 200,
                   results |-> Len(req.found), total |-> total,
                   page |-> OrDefault(req.request.page, 1),
                   pages |-> (total + limit - 1) \div limit,
                   data |-> [i \in 1..Len(req.found) |-> Candidate(req.found[i])]]
  /\ UNCHANGED OutsideRequest

\* resumeController.ts, lines 138-190: the handler, one step for each await
GetCandidatesForJob ==
  \/ JobFindById
  \/ ResumeFind
  \/ ResumeCountDocuments

\* While the handler waits for the store, an analysis of another document of
\* the job ends: the update of line 255 of the service
ResumeCompletes ==
  /\ req.stage \in {"find", "count"}
  /\ \E k \in 1..Len(req.resumes) :
       /\ req.resumes[k].processingStatus = "processing"
       /\ req' = [req EXCEPT !.resumes[k].processingStatus = "completed"]
  /\ UNCHANGED OutsideRequest

\* uploadMiddleware.ts, lines 32-37
limits == [fileSize |-> MAX_SIZE, files |-> 1, fields |-> 10, parts |-> 11]

\* resumeRoutes.ts, line 23: upload.array('resumeFiles', 10)
maxCount == 10

\* uploadMiddleware.ts, lines 8-28
fileFilter(file) ==
  IF toLowerCase(extname(file.originalname)) \notin ALLOWED_EXTENSIONS
  THEN "Invalid file extension. Only .pdf, .doc, .docx files are allowed."
  ELSE IF file.mimetype \notin ALLOWED_MIME_TYPES
       THEN "Invalid file type. Only PDF, DOC, and DOCX files are supported."
       ELSE "accepted"

\* multer, lib/multer-error.js: the message of a MulterError
errorMessages(code) ==
  CASE code = "LIMIT_PART_COUNT" -> "Too many parts"
    [] code = "LIMIT_FILE_SIZE" -> "File too large"
    [] code = "LIMIT_FILE_COUNT" -> "Too many files"
    [] code = "LIMIT_FIELD_KEY" -> "Field name too long"
    [] code = "LIMIT_FIELD_VALUE" -> "Field value too long"
    [] code = "LIMIT_FIELD_COUNT" -> "Too many fields"
    [] code = "LIMIT_UNEXPECTED_FILE" -> "Unexpected field"
    [] code = "MISSING_FIELD_NAME" -> "Field name missing"

\* new MulterError(code), new Error(message), and no error
MulterError(code) == [multer |-> TRUE, code |-> code, message |-> errorMessages(code)]
Error(message) == [multer |-> FALSE, code |-> "", message |-> message]
NoError == [multer |-> FALSE, code |-> "accepted", message |-> ""]

\* What multer does with the i-th file part of the request: the limit on
\* the files of a request, the limit of the field, the filter, the size.
FilePart(files, i) ==
  IF i > limits.files THEN MulterError("LIMIT_FILE_COUNT")
  ELSE IF i > maxCount THEN MulterError("LIMIT_UNEXPECTED_FILE")
  ELSE IF fileFilter(files[i]) # "accepted" THEN Error(fileFilter(files[i]))
  ELSE IF files[i].size > limits.fileSize THEN MulterError("LIMIT_FILE_SIZE")
  ELSE NoError

\* The error of the first file part that is not accepted, or no error
FileParts(files) ==
  IF \A i \in 1..Len(files) : FilePart(files, i) = NoError
  THEN NoError
  ELSE FilePart(files, CHOOSE i \in 1..Len(files) :
                         /\ FilePart(files, i) # NoError
                         /\ \A j \in 1..(i - 1) : FilePart(files, j) = NoError)

\* upload.array('resumeFiles', 10) on a request whose text fields come
\* before its files: the field after the last one allowed ends it
UploadArray(fields, files) ==
  IF fields > limits.fields THEN MulterError("LIMIT_FIELD_COUNT")
  ELSE FileParts(files)

\* uploadMiddleware.ts, lines 41-77: the answer to a request that ended in
\* an error
handleMulterError(err) ==
  IF err.multer
  THEN CASE err.code = "LIMIT_FILE_SIZE" ->
              [status |-> 400, error |-> "File too large",
               message |-> "File size exceeds the maximum allowed size of "
                             \o ToString(MAX_SIZE \div (1024 * 1024)) \o "MB."]
         [] err.code = "LIMIT_FILE_COUNT" ->
              [status |-> 400, error |-> "Too many files",
               message |-> "Only one file can be uploaded at a time."]
         [] err.code = "LIMIT_UNEXPECTED_FILE" ->
              [status |-> 400, error |-> "Unexpected file field",
               message |-> "Unexpected file field in upload request."]
         [] OTHER -> [status |-> 400, error |-> "Upload error",
                      message |-> IF err.message # "" THEN err.message
                                  ELSE "An error occurred during file upload."]
  ELSE [status |-> 400, error |-> "Invalid file", message |-> err.message]

\* resumeRoutes.ts, lines 18-27, for a request the rate limiters and
\* protect let through: upload.array, validate(resumeSchemas.upload), then
\* handleMulterError for an error or uploadResume with req.files
PostUpload ==
  /\ req.stage = "upload"
  /\ LET err == UploadArray(req.fields, req.files) IN
     req' = IF err # NoError
            THEN [stage |-> "routed", request |-> req, reached |-> 0,
                  answer |-> handleMulterError(err)]
            ELSE IF ~req.jobId
            THEN [stage |-> "routed", request |-> req, reached |-> 0,
                  answer |-> handleMulterError(
                               Error("Validation failed: jobId is required"))]
            ELSE [stage |-> "routed", request |-> req, reached |-> Len(req.files),
                  answer |-> [status |-> 0, error |-> "", message |-> ""]]
  /\ UNCHANGED OutsideRequest

RequestNext ==
  \/ GetCandidatesForJob
  \/ ResumeCompletes
  \/ PostUpload
  \/ RunValidateResumeFile
  \/ RunValidateFileSignature
  \/ RunValidateFileName

RequestSpec == RequestInit /\ [][RequestNext]_vars

\* ------------------------------------------------------------ uploadResume
\* resumeController.ts, lines 16-131.  The files of the request are numbered
\* from 1; the invocation of triggerGeminiAnalysis for file f is invocation f.
Files == Invocations

\* newResume._id of the document saved for file f
FileId(f) == <<"r1", "r2", "r3", "r4">>[f]

\* req.files of the requests followed
UploadFiles == {GoodPdf, TextFile, ScriptPdf}

\* What extractTextFromBuffer answers: nothing, white space, a text.
ExtractedTexts == {<<>>, <<WS>>, <<WS, Prose, WS>>}

UploadInit ==
  /\ docs = [d \in {} |-> NewResume]
  /\ nTerminal = [d \in {} |-> 0]
  /\ InitLocals
  /\ lab = LabOff
  /\ req = ReqOff
  /\ poll = PollOff
  /\ \E n \in 0..NumInvocations : \E files \in [1..n -> UploadFiles] :
       up = [stage |-> "start", n |-> n, i |-> 1, status |-> 0, files |-> files,
             texts |-> <<>>, uploadedResumes |-> <<>>, errors |-> <<>>]

UploadFrame ==
  UNCHANGED <<resumeDoc, attempt, caught, result, lastOutcome, nCalls, nWrites,
              errWriteFailed, noJob, lab, req, poll>>

\* lines 19-32: the checks before the loop
UploadStart ==
  /\ up.stage = "start"
  /\ \E check \in {"ok", "noJobId", "jobNotFound", "storeFails"} :
       up' = IF up.n = 0 THEN [up EXCEPT !.stage = "responded", !.status = 400]
             ELSE CASE check = "noJobId" -> [up EXCEPT !.stage = "responded", !.status = 400]
                    [] check = "jobNotFound" -> [up EXCEPT !.stage = "responded", !.status = 404]
                    [] check = "storeFails" -> [up EXCEPT !.stage = "responded", !.status = 500]
                    [] check = "ok" -> [up EXCEPT !.stage = "validate"]
  /\ UNCHANGED <<docs, nTerminal, pc, resumeId>>
  /\ UploadFrame

\* A loop that gives up at the first file that fails.
AfterFailureAbort(i, n) == n + 1

\* lines 51, 62, 75, 81 (continue) and 112-115 (catch): the next file
AfterFailure(i, n) == i + 1

\* the loop of line 40 moves to file j, or ends
MoveTo(u, j) ==
  IF j > u.n THEN [u EXCEPT !.i = j, !.stage = "respond"]
  ELSE [u EXCEPT !.i = j, !.stage = "validate"]

\* lines 45, 56, 70, 79, 113: errors.push, then the next file
FileFails(u, error) ==
  MoveTo([u EXCEPT !.errors = Append(@, [file |-> u.i, error |-> error])],
         AfterFailure(u.i, u.n))

\* lines 43 and 54 for every file a request may hold, computed once
FileChecks ==
  [file \in UploadFiles |->
     [fileValidation |-> validateResumeFile(file),
      maliciousCheck |-> checkForMaliciousContent(file.buffer)]]

\* lines 44-63: the outcome of the two checks
Checked(u, checks) ==
  IF ~checks.fileValidation.isValid
  THEN FileFails(u, checks.fileValidation.error)
  ELSE IF ~checks.maliciousCheck.isValid
       THEN FileFails(u, "Malicious content: " \o checks.maliciousCheck.error)
       ELSE [u EXCEPT !.stage = "extract"]

\* lines 43-63: validateResumeFile and checkForMaliciousContent
UploadValidate ==
  /\ up.stage = "validate"
  /\ up' = Checked(up, FileChecks[up.files[up.i]])
  /\ UNCHANGED <<docs, nTerminal, pc, resumeId>>
  /\ UploadFrame

\* A test for missing text that lets white space through.
NoTextOnlyEmpty(extractedText) == extractedText = <<>>

\* line 78: !extractedText || extractedText.trim() === ''
NoText(extractedText) == extractedText = <<>> \/ Trim(extractedText) = <<>>

\* lines 66-82: extractTextFromBuffer; texts keeps what it answered
UploadExtract ==
  /\ up.stage = "extract"
  /\ \/ up' = FileFails(up, "Text extraction failed or file format unsupported.")
     \/ \E extractedText \in ExtractedTexts :
          LET u == [up EXCEPT !.texts = Append(@, [file |-> up.i, text |-> extractedText])]
          IN up' = IF NoText(extractedText)
                   THEN FileFails(u, "No text content found in file.")
                   ELSE [u EXCEPT !.stage = "save"]
  /\ UNCHANGED <<docs, nTerminal, pc, resumeId>>
  /\ UploadFrame

\* line 113: the error kept for a file whose processing threw err
Unexpected(err) == "Unexpected processing error: " \o err.text

\* lines 84-110: the document is saved, triggerGeminiAnalysis is called and
\* not awaited; a rejected save is caught at line 112.  Nothing else in the
\* loop body throws: the validators read a buffer held in memory, and the
\* extraction has its own catch.
UploadSave ==
  /\ up.stage = "save"
  /\ \E ok \in BOOLEAN :
       IF ok
       THEN LET id == FileId(up.i) IN
            /\ docs' = [d \in (DOMAIN docs) \cup {id} |->
                          IF d = id THEN NewResume ELSE docs[d]]
            /\ nTerminal' = [d \in (DOMAIN docs) \cup {id} |->
                               IF d = id THEN 0 ELSE nTerminal[d]]
            /\ pc' = [pc EXCEPT ![up.i] = "findResume"]
            /\ resumeId' = [resumeId EXCEPT ![up.i] = id]
            /\ up' = MoveTo([up EXCEPT !.uploadedResumes = Append(@, up.i)], up.i + 1)
       ELSE /\ up' = FileFails(up, Unexpected(StoreErrMsg))
            /\ UNCHANGED <<docs, nTerminal, pc, resumeId>>
  /\ UploadFrame

\* lines 118-130: the response
UploadRespond ==
  /\ up.stage = "respond"
  /\ up' = [up EXCEPT !.stage = "responded",
                      !.status = IF up.uploadedResumes = <<>> THEN 400 ELSE 201]
  /\ UNCHANGED <<docs, nTerminal, pc, resumeId>>
  /\ UploadFrame

UploadStep ==
  \/ UploadStart
  \/ UploadValidate
  \/ UploadExtract
  \/ UploadSave
  \/ UploadRespond

UploadNext ==
  \/ UploadStep
  \/ \E p \in Invocations : Step(p)

UploadSpec == UploadInit /\ [][UploadNext]_vars

\* The request handler and every started invocation keep running.
UploadFairSpec ==
  UploadSpec /\ WF_vars(UploadStep) /\ \A p \in Invocations : WF_vars(Step(p))

\* --------------------------------------------------------- useResumePolling
\* src/client/src/hooks/useResumePolling.ts.  One session: resumeId is set
\* and startPolling is called once.  The requests in flight are counted;
\* onComplete, onError and requests count the callbacks made and the status
\* requests started.
PollInit ==
  /\ docs = [d \in DocIds |-> NewResume]
  /\ nTerminal = [d \in DocIds |-> 0]
  /\ InitLocals
  /\ lab = LabOff
  /\ up = UpOff
  /\ req = ReqOff
  /\ \E m \in 1..MaxAttemptsOption :
       poll = [maxAttempts |-> m, started |-> FALSE, isPolling |-> FALSE,
               intervalRef |-> FALSE, stopped |-> FALSE, attemptCount |-> 0,
               inFlight |-> 0, requests |-> 0, lateRequests |-> 0,
               onComplete |-> 0, onError |-> 0]

\* Everything but the polling session, which stands still meanwhile.
OutsidePoll == <<docs, pc, resumeId, resumeDoc, attempt, caught, result,
                 lastOutcome, nCalls, nWrites, errWriteFailed, noJob, nTerminal,
                 lab, up, req>>

\* lines 29-35
stopPolling(s) == [s EXCEPT !.intervalRef = FALSE, !.isPolling = FALSE, !.stopped = TRUE]

\* lines 40-50: checkStatus up to the await of the status request
checkStatusSend(s) ==
  [s EXCEPT !.attemptCount = @ + 1, !.inFlight = @ + 1, !.requests = @ + 1,
            !.lateRequests = IF s.stopped THEN @ + 1 ELSE @]

\* lines 51-68: checkStatus from the answer of the status request on;
\* answer is the processingStatus of the response, or "rejected"
checkStatusReceive(s, answer) ==
  LET t == [s EXCEPT !.inFlight = @ - 1] IN
  CASE answer = "completed" -> [stopPolling(t) EXCEPT !.onComplete = @ + 1]
    [] answer = "error" -> [stopPolling(t) EXCEPT !.onError = @ + 1]
    [] answer = "rejected" -> [stopPolling(t) EXCEPT !.onError = @ + 1]
    [] OTHER -> IF t.attemptCount >= t.maxAttempts
                THEN [stopPolling(t) EXCEPT !.onError = @ + 1]
                ELSE t

\* lines 71-83
StartPolling ==
  /\ ~poll.started /\ ~poll.isPolling
  /\ poll' = [checkStatusSend([poll EXCEPT !.started = TRUE, !.attemptCount = 0,
                                            !.isPolling = TRUE])
                EXCEPT !.intervalRef = TRUE]
  /\ UNCHANGED OutsidePoll

\* line 82: the interval timer fires and calls checkStatus
Tick ==
  /\ poll.intervalRef
  /\ poll.requests < RequestCap
  /\ poll' = checkStatusSend(poll)
  /\ UNCHANGED OutsidePoll

\* a status request in flight is answered
Answer ==
  /\ poll.inFlight > 0
  /\ \E answer \in {"uploaded", "processing", "completed", "error", "rejected"} :
       poll' = checkStatusReceive(poll, answer)
  /\ UNCHANGED OutsidePoll

\* lines 86-90: the component unmounts
Unmount ==
  /\ poll.started /\ ~poll.stopped
  /\ poll' = stopPolling(poll)
  /\ UNCHANGED OutsidePoll

PollNext ==
  \/ StartPolling
  \/ Tick
  \/ Answer
  \/ Unmount

PollSpec == PollInit /\ [][PollNext]_vars

\* ================================================================= claims
Quiet == \A p \in Invocations : pc[p] \in {"idle", "done"}

\* The invocation read its document and went on past the check of line 176.
PassedCheck(p) ==
  /\ resumeDoc[p] # None
  /\ resumeDoc[p][1] \notin {"processing", "completed"}

\* C1: among the invocations on one document at most one passes the status
\* check, and at most one calls the model, in every interleaving.
C1_AtMostOneAnalysis ==
  \A d \in DOMAIN docs :
    /\ Cardinality({p \in Invocations : resumeId[p] = d /\ PassedCheck(p)}) <= 1
    /\ Cardinality({p \in Invocations : resumeId[p] = d /\ nCalls[p] > 0}) <= 1

\* C2: an invocation that reads status processing or completed returns at
\* once, having called the model zero times and written nothing.
C2_SkipIsNoOp ==
  \A p \in Invocations :
    (resumeDoc[p] # None /\ resumeDoc[p][1] \in {"processing", "completed"})
      => /\ pc[p] = "done"
         /\ nCalls[p] = 0
         /\ nWrites[p] = 0
         /\ ~errWriteFailed[p]

C2_Witness ==
  \E p, q \in Invocations :
    /\ pc[p] = "done" /\ resumeDoc[p] = Some("processing")
    /\ pc[q] = "call" /\ resumeId[q] = resumeId[p]

\* C3 as claimed: once no invocation is running, no document is left in
\* processing, whatever failed (model call, parsing, scrub, store write).
C3_NoDocLeftProcessing ==
  Quiet => \A d \in DOMAIN docs : Status(d) # "processing"

\* C3 amended: a document in processing eventually becomes completed or
\* error, unless the store rejected the update of line 274 that was to
\* persist error for it.
C3_ProcessingEnds ==
  \A d \in DocIds :
    [](Status(d) = "processing"
        => <>(\/ Status(d) \in {"completed", "error"}
              \/ \E p \in Invocations : resumeId[p] = d /\ errWriteFailed[p]))

C3_Witness ==
  \E p \in Invocations :
    /\ pc[p] = "done"
    /\ ~errWriteFailed[p]
    /\ nWrites[p] = 2
    /\ Status(resumeId[p]) = "error"
    /\ docs[resumeId[p]].errorDetails = Some(FailedAfterMsg(UnavailableMsg))

\* C4: a document sees at most one update to completed or error, and an
\* invocation that reads completed or error is a no-op: it returns at once,
\* calls the model zero times and writes nothing.
C4_OneTerminalTransition ==
  /\ \A d \in DOMAIN docs : nTerminal[d] <= 1
  /\ \A p \in Invocations :
       (resumeDoc[p] # None /\ resumeDoc[p][1] \in {"completed", "error"})
         => pc[p] = "done" /\ nCalls[p] = 0 /\ nWrites[p] = 0

\* The moves of processingStatus the data model allows.
ForwardMove(s, t) ==
  \/ s = "uploaded" /\ t \in {"extracting", "processing", "error"}
  \/ s = "extracting" /\ t \in {"processing", "error"}
  \/ s = "processing" /\ t \in {"completed", "error"}

\* C5: every change of a document's status is a forward move; completed
\* and error are never left.
C5_StatusMonotonic ==
  [][\A d \in DOMAIN docs :
       Status(d)' # Status(d) => ForwardMove(Status(d), Status(d)')]_vars

\* C6: errorDetails is present only with status error; score and
\* geminiAnalysis are present only with status completed, and then both.
C6_FieldsMatchStatus ==
  \A d \in DOMAIN docs :
    /\ docs[d].errorDetails # None => Status(d) = "error"
    /\ (docs[d].score # None \/ docs[d].geminiAnalysis # None)
         => /\ Status(d) = "completed"
            /\ docs[d].score # None
            /\ docs[d].geminiAnalysis # None

\* The model call that ended the retry loop of invocation p failed with
\* HTTP status 429.
QuotaSignal(p) ==
  /\ lastOutcome[p] # None
  /\ lastOutcome[p][1].kind = "throw"
  /\ lastOutcome[p][1].err.status = 429

C7_Caught ==
  \A p \in Invocations :
    QuotaSignal(p)
      => /\ pc[p] = "catch"
         /\ caught[p] # None
         /\ caught[p][1].text = "Gemini AI Quota Exceeded. Please try again later."
         /\ caught[p][1] # FailedAfterMsg(lastOutcome[p][1].err.msg)
         /\ nCalls[p] = attempt[p] + 1
         /\ (attempt[p] = 0 => nCalls[p] = 1 /\ nWrites[p] = 1)

C7_Then ==
  \A p \in Invocations :
    QuotaSignal(p)
      => /\ nCalls'[p] <= nCalls[p]
         /\ pc'[p] \in {"catch", "done"}
         /\ nWrites'[p] # nWrites[p]
              => /\ docs'[resumeId[p]].processingStatus = "error"
                 /\ docs'[resumeId[p]].errorDetails = Some(QuotaMsg)

\* C7: a model call failing with status 429 ends the retry loop at once with
\* the quota error (never the failed-after-3-attempts error) and no further
\* model call; on the first attempt that makes one model call in all, and
\* the only update the invocation makes after the one to processing sets
\* status error with the quota message.
C7_QuotaNotRetried == []C7_Caught /\ [][C7_Then]_vars

C7_Witness ==
  \E p \in Invocations :
    /\ QuotaSignal(p)
    /\ lastOutcome[p][1].err.msg = RateLimitMsg
    /\ nCalls[p] = 1
    /\ Status(resumeId[p]) = "processing"

C8_Bounded ==
  \A p \in Invocations :
    /\ nCalls[p] <= 3
    /\ pc[p] = "call" => nCalls[p] < 3

\* C8: one analyzeWithGemini run calls the model at most 3 times, never
\* stands in the loop after a third call, and always leaves the loop.
C8_AtMostThreeCalls ==
  /\ []C8_Bounded
  /\ \A p \in Invocations : (pc[p] = "call") ~> (pc[p] # "call")

C8_Witness ==
  \E p \in Invocations :
    /\ pc[p] = "catch"
    /\ nCalls[p] = 3
    /\ caught[p] = Some(FailedAfterMsg(UnavailableMsg))

\* The replies of the model that hold a JSON object with a fitScore between
\* the first '{' and the last '}'.
GoodReplies ==
  { <<LB, MFit, RB>>,
    <<FenceJson, WS, LB, MFit, Comma, MSkills, RB, WS, Fence>>,
    <<LB, MFit, Comma, MSkillsNum, RB>> }

\* The loop of invocation p ended on a reply that is structurally bad.
BadReplyEnded(p) ==
  /\ lastOutcome[p] # None
  /\ lastOutcome[p][1].kind = "reply"
  /\ lastOutcome[p][1].text \notin GoodReplies

\* C9: a result is returned only from a good reply and has a fitScore; a
\* bad reply ends in a throw with no result; every stored analysis has a
\* fitScore and comes with a score.
C9_OnlyValidatedResults ==
  /\ \A p \in Invocations :
       /\ result[p] # None
            => /\ lastOutcome[p] # None
               /\ lastOutcome[p][1].kind = "reply"
               /\ lastOutcome[p][1].text \in GoodReplies
               /\ "fitScore" \in DOMAIN result[p][1]
       /\ BadReplyEnded(p) => result[p] = None /\ pc[p] = "catch"
  /\ \A d \in DOMAIN docs :
       docs[d].geminiAnalysis # None
         => /\ "fitScore" \in DOMAIN docs[d].geminiAnalysis[1]
            /\ docs[d].score # None

C9_Witness ==
  \E p \in Invocations :
    /\ result[p] # None
    /\ nCalls[p] = 3
    /\ lastOutcome[p][1].text = <<FenceJson, WS, LB, MFit, Comma, MSkills, RB, WS, Fence>>

\* C10: a loop that ends on a structurally bad reply ends by exhaustion,
\* after 3 model calls, and never with the quota error.
C10_ParseFailureIsTransient ==
  \A p \in Invocations :
    BadReplyEnded(p) => caught[p] # Some(QuotaMsg) /\ nCalls[p] = 3

\* C11 as claimed: the update of a successful analysis stores the scrubbed
\* result, clears errorDetails, sets status completed, and stores as score
\* an integer between 0 and 10.
C11_ScoreInRange ==
  lab.stage = "stored"
    => /\ lab.update.geminiAnalysis = Some(lab.out.val)
       /\ lab.update.processingStatus = "completed"
       /\ lab.update.errorDetails = None
       /\ lab.update.score # None
       /\ lab.update.score[1] \in 0..10

\* C12 as claimed: once the job was found missing, the step the invocation
\* takes is the update to error with the fixed diagnostic, its only update,
\* after which it has returned; it never called the model.
C12_JobMissingFixedError ==
  [][\A p \in Invocations :
       (noJob[p] /\ pc'[p] # pc[p])
         => /\ pc'[p] = "done"
            /\ nWrites[p] = 0 /\ nWrites'[p] = 1
            /\ nCalls[p] = 0
            /\ docs'[resumeId[p]].processingStatus = "error"
            /\ docs'[resumeId[p]].errorDetails = Some(JobMissingMsg)]_vars

C12_Standing ==
  \A p \in Invocations :
    noJob[p] => /\ pc[p] \in {"jobMissing", "catch"}
                /\ nCalls[p] = 0
                /\ nWrites[p] = 0
                /\ pc[p] = "catch" => caught[p] = Some(StoreErrMsg)

C12_Move ==
  \A p \in Invocations :
    (noJob[p] /\ pc'[p] # pc[p])
      => IF pc[p] = "jobMissing" /\ nWrites'[p] # nWrites[p]
         THEN /\ pc'[p] = "done"
              /\ docs'[resumeId[p]].processingStatus = "error"
              /\ docs'[resumeId[p]].errorDetails = Some(JobMissingMsg)
         ELSE IF pc[p] = "jobMissing"
         THEN pc'[p] = "catch" /\ docs' = docs
         ELSE /\ pc'[p] = "done"
              /\ nWrites'[p] # nWrites[p]
                   => /\ docs'[resumeId[p]].processingStatus = "error"
                      /\ docs'[resumeId[p]].errorDetails = Some(StoreErrMsg)
              /\ nWrites'[p] = nWrites[p] => docs' = docs

\* C12 amended: once the job was found missing the invocation calls the
\* model never and writes processing never; its update sets error with the
\* fixed diagnostic and it returns, unless the store rejects that update:
\* then the catch block sets error with the message of the store failure,
\* or, rejected again, leaves the document as it is.
C12_JobMissingEndsInError == []C12_Standing /\ [][C12_Move]_vars

C12_Witness ==
  \E p, q \in Invocations :
    /\ pc[p] = "done" /\ nWrites[p] = 1 /\ resumeDoc[p] = Some("uploaded")
    /\ pc[q] = "idle"
    /\ Status(resumeId[p]) = "error"
    /\ docs[resumeId[p]].errorDetails = Some(JobMissingMsg)

\* C13 as claimed: whenever the catch block of an invocation has run, the
\* failure it caught stands on the document as status error with the
\* diagnostic (a rejected update of line 274 set aside, see C3).
C13_FailuresRecorded ==
  [][\A p \in Invocations :
       (pc[p] = "catch" /\ pc'[p] = "done" /\ resumeId[p] \in DOMAIN docs)
         => \/ errWriteFailed'[p]
            \/ /\ docs'[resumeId[p]].processingStatus = "error"
               /\ docs'[resumeId[p]].errorDetails = Some(ErrorDetails(caught[p][1]))]_vars

\* File f of the request stands in the list (of file numbers).
InList(list, f) == \E k \in 1..Len(list) : list[k] = f
Failed(f) == \E k \in 1..Len(up.errors) : up.errors[k].file = f

\* Every change of a stored document is an update made by an invocation
\* that runs for that very document.
C14_Frame ==
  \A d \in DOMAIN docs :
    /\ d \in DOMAIN docs'
    /\ docs'[d] # docs[d]
         => \E p \in Invocations : resumeId[p] = d /\ nWrites'[p] = nWrites[p] + 1

\* When the loop over the files has ended, every file of the request was
\* handled: it is in errors, or else its document is saved and its analysis
\* triggered.
C14_AllFilesHandled ==
  (up.stage \in {"respond", "responded"} /\ up.i > up.n)
    => \A f \in 1..up.n :
         /\ Failed(f) # InList(up.uploadedResumes, f)
         /\ InList(up.uploadedResumes, f)
              => /\ FileId(f) \in DOMAIN docs
                 /\ resumeId[f] = FileId(f)
                 /\ pc[f] # "idle"

\* A finished invocation that could read its document and whose updates the
\* store applied left the document completed or in error.
C14_OwnEnd ==
  \A f \in Files :
    (pc[f] = "done" /\ resumeDoc[f] # None /\ ~errWriteFailed[f])
      => Status(FileId(f)) \in {"completed", "error"}

\* C14: a run for one document writes no field of another document; a
\* failure while one file of a bulk upload is handled (validation,
\* extraction, save, model, store) stops neither the loop over the
\* remaining files nor the analysis of any other file: the request is
\* answered, every triggered analysis runs to its end, and its end depends
\* on its own run alone.
C14_PipelinesIndependent ==
  /\ [][C14_Frame]_vars
  /\ [](C14_AllFilesHandled /\ C14_OwnEnd)
  /\ (up.stage = "start") ~> (up.stage = "responded")
  /\ \A f \in Files : (pc[f] # "idle") ~> (pc[f] = "done")

C14_Witness ==
  /\ up.stage = "responded" /\ up.status = 201
  /\ up.n = 2
  /\ up.errors = <<[file |-> 1, error |-> Unexpected(StoreErrMsg)]>>
  /\ up.uploadedResumes = <<2>>
  /\ pc[2] = "done"
  /\ Status(FileId(2)) = "completed"

\* The shape of an email address: local part, @, domain, dot, top-level
\* domain of two letters or more.
AddressShape ==
  << Plus(Lower \cup Upper \cup Digits \cup {".", "_", "%", "+", "-"}),
     One({"@"}),
     Plus(Lower \cup Upper \cup Digits \cup {".", "-"}),
     One({"."}),
     Cls(Lower \cup Upper, 2, NoMax) >>

\* The value is a string that holds an email address.
HoldsAddress(x) == IsString(x) /\ RegexTest(AddressShape, x.v)

\* The text holds the piece.
Contains(text, piece) ==
  \E i \in 1..(Len(text) + 1 - Len(piece)) : SubSeq(text, i, i + Len(piece) - 1) = piece

\* The items of a field that is a list, none otherwise.
Items(obj, k) == IF IsArray(Field(obj, k)) THEN Field(obj, k).v ELSE <<>>

\* The strings of the record outside its skills: the institutions and the
\* justification.
NarrativeHoldsAddress(obj) ==
  \/ HoldsAddress(Field(obj, "justification"))
  \/ \E i \in 1..Len(Items(obj, "education")) :
       /\ Items(obj, "education")[i].t = "object"
       /\ HoldsAddress(Field(Items(obj, "education")[i].v, "institution"))

SkillsHoldAddress(obj) ==
  \E i \in 1..Len(Items(obj, "skills")) : HoldsAddress(Items(obj, "skills")[i])

\* C15 as claimed: when the reply has an email address in a skill string
\* (and nowhere else), every such skill is stored with the address replaced
\* by [REDACTED Email], and no string of the stored record holds an address.
C15_EmailRedacted ==
  (/\ lab.stage = "stored"
   /\ SkillsHoldAddress(lab.result)
   /\ ~NarrativeHoldsAddress(lab.result))
    => LET stored == lab.update.geminiAnalysis[1] IN
       /\ Len(Items(stored, "skills")) = Len(Items(lab.result, "skills"))
       /\ \A i \in 1..Len(Items(lab.result, "skills")) :
            HoldsAddress(Items(lab.result, "skills")[i])
              => /\ IsString(Items(stored, "skills")[i])
                 /\ Contains(Items(stored, "skills")[i].v, Redacted("Email"))
       /\ ~SkillsHoldAddress(stored)
       /\ ~NarrativeHoldsAddress(stored)

PatternOf(type) == IF type = "Email" THEN EmailPattern ELSE PhonePattern

\* The system warning that names the field and the detector type.
WarningNaming(field, type) ==
  "System: Potential PII (" \o type \o ") detected "
  \o (CASE field = "skill" -> "and redacted from skill."
        [] field = "institution" -> "in education institution."
        [] field = "justification" -> "in 'justification'.")

\* How often the list holds the item.
Count(w, x) == Cardinality({i \in 1..Len(w) : w[i] = x})

\* The detector of the type matches an institution string of the result.
InstitutionMatches(obj, type) ==
  \E i \in 1..Len(Items(obj, "education")) :
    LET edu == Items(obj, "education")[i] IN
    /\ edu.t = "object"
    /\ IsString(Field(edu.v, "institution"))
    /\ RegexTest(PatternOf(type), Field(edu.v, "institution").v)

\* The detector of the type matches the justification string of the result.
JustificationMatches(obj, type) ==
  /\ IsString(Field(obj, "justification"))
  /\ RegexTest(PatternOf(type), Field(obj, "justification").v)

SystemWarnings(obj) ==
  { WarningNaming("skill", type) : type \in
      { t \in {"Email", "Phone"} :
          \E i \in 1..Len(Items(obj, "skills")) :
            RegexTest(PatternOf(t), StringOf(Items(obj, "skills")[i])) } }
  \cup { WarningNaming("institution", type) : type \in
           { t \in {"Email", "Phone"} : InstitutionMatches(obj, t) } }
  \cup { WarningNaming("justification", type) : type \in
           { t \in {"Email", "Phone"} : JustificationMatches(obj, t) } }

\* The warnings the reply supplies: the items of its list, or its one text.
ModelWarnings(obj) ==
  IF IsString(Field(obj, "warnings"))
  THEN { Join(Field(obj, "warnings").v) }
  ELSE { Items(obj, "warnings")[i] : i \in 1..Len(Items(obj, "warnings")) }

\* C18 as claimed: the stored warnings are a list that holds every warning of the
\* reply and every system warning exactly once, and nothing else.
C18_WarningsMergedOnce ==
  lab.stage = "stored"
    => LET stored == lab.update.geminiAnalysis[1]
           w == Items(stored, "warnings")
       IN /\ IsArray(Field(stored, "warnings"))
          /\ \A x \in ModelWarnings(lab.result) \cup SystemWarnings(lab.result) :
               Count(w, x) = 1
          /\ \A i \in 1..Len(w) :
               w[i] \in ModelWarnings(lab.result) \cup SystemWarnings(lab.result)

\* C19 as claimed: the scrub of a result analyzeWithGemini returned does
\* not throw.
C19_ScrubNeverThrows ==
  lab.stage = "scrubbed" => lab.out.ok

\* The text holds the token.
Has(text, t) == \E i \in 1..Len(text) : text[i] = t

\* The reply at hand is a JSON object in code-fence markers with prose
\* before it, after it, or both.
FencedWithProse ==
  /\ lab.stage \in {"accepted", "rejected"}
  /\ lab.reply.stage = "reply"
  /\ lab.reply.obj # <<>>
  /\ lab.reply.text = Fenced(lab.reply.pre, lab.reply.obj, lab.reply.post)
  /\ (lab.reply.pre # <<>> \/ lab.reply.post # <<>>)

\* The reply at hand has no '{' that a '}' follows.
Markerless ==
  /\ lab.stage \in {"accepted", "rejected"}
  /\ lab.reply.stage = "reply"
  /\ ~\E i, j \in 1..Len(lab.reply.text) :
        i < j /\ lab.reply.text[i] = LB /\ lab.reply.text[j] = RB

\* The text handed to JSON.parse is the enclosed object, and the outcome
\* is the one the object alone would have.
ParsesEnclosedObject ==
  /\ potentialJson(cleanedJsonText(lab.reply.text)) = lab.reply.obj
  /\ TryBody([kind |-> "reply", text |-> lab.reply.obj]).ok = (lab.stage = "accepted")
  /\ lab.stage = "accepted" => lab.result = JSONparse(lab.reply.obj).val.v

\* A reply without the markers is rejected: the outcome of the try body is
\* fixed by the text of the reply, so every attempt on it fails.
FailsOnMarkers ==
  Markerless => lab.stage = "rejected"

\* C20 as claimed: from a fenced reply with prose around it exactly the
\* enclosed object is parsed, whatever the prose; a reply with no '{'
\* followed by a '}' is rejected.
C20_ExtractsEnclosedObject ==
  /\ FencedWithProse => ParsesEnclosedObject
  /\ FailsOnMarkers

\* C20 amended: from a fenced reply with prose around it exactly the
\* enclosed object is parsed when the prose before it holds no '{' and the
\* prose after it holds no '}'; a reply with no '{' followed by a '}' is
\* rejected.
C20_ExtractsObjectBetweenBraces ==
  /\ (FencedWithProse /\ ~Has(lab.reply.pre, LB) /\ ~Has(lab.reply.post, RB))
       => ParsesEnclosedObject
  /\ FailsOnMarkers

C20_Witness ==
  /\ lab.stage = "accepted"
  /\ lab.reply.stage = "reply"
  /\ lab.reply.text = <<Prose, WS, FenceJson, WS, LB, KeyEdu, LB, RB, Comma, MFit, RB,
                        WS, Fence, WS, Prose>>
  /\ lab.result = [education |-> JObj(EmptyObj), fitScore |-> JNum(6)]

\* The name ends with the extension, after a stem.
EndsWith(name, e) ==
  /\ Len(name) > Len(e)
  /\ SubSeq(name, Len(name) - Len(e) + 1, Len(name)) = e
  /\ name[Len(name) - Len(e)] # "/"

\* The buffer begins with the bytes.
Leading(buffer, bytes) ==
  Len(buffer) >= Len(bytes) /\ SubSeq(buffer, 1, Len(bytes)) = bytes

\* The supported formats: extension, signature, reason of a mismatch.
Formats ==
  {[ext |-> <<".", "p", "d", "f">>, sig |-> <<37, 80, 68, 70>>,
    reason |-> "File extension is .pdf but file content does not match PDF format."],
   [ext |-> <<".", "d", "o", "c">>, sig |-> <<208, 207, 17, 224, 161, 177, 26, 225>>,
    reason |-> "File extension is .doc but file content does not match DOC format."],
   [ext |-> <<".", "d", "o", "c", "x">>, sig |-> <<80, 75, 3, 4>>,
    reason |-> "File extension is .docx but file content does not match DOCX format."]}

\* C23 as claimed: validateFileSignature passes every buffer of at least 8
\* bytes that begins with the signature of the name's extension, and fails
\* every buffer that does not begin with it, with the reason naming the
\* extension's format.
C23_SignatureMatchesExtension ==
  req.stage = "signature" =>
    \A f \in Formats :
      EndsWith(req.file.originalname, f.ext) =>
        /\ (Len(req.file.buffer) >= 8 /\ Leading(req.file.buffer, f.sig))
             => req.result = [isValid |-> TRUE]
        /\ ~Leading(req.file.buffer, f.sig)
             => req.result = [isValid |-> FALSE, error |-> f.reason]

\* C23 amended: the same for buffers of at least 8 bytes; a shorter buffer
\* fails as corrupted or incomplete, whatever its extension and bytes.
C23_SignatureCheckedFromEightBytes ==
  req.stage = "signature" =>
    /\ \A f \in Formats :
         (EndsWith(req.file.originalname, f.ext) /\ Len(req.file.buffer) >= 8) =>
           /\ Leading(req.file.buffer, f.sig) => req.result = [isValid |-> TRUE]
           /\ ~Leading(req.file.buffer, f.sig)
                => req.result = [isValid |-> FALSE, error |-> f.reason]
    /\ Len(req.file.buffer) < 8
         => req.result = [isValid |-> FALSE, error |-> "File is corrupted or incomplete."]

C23_Witness ==
  /\ req.stage = "signature"
  /\ req.file.originalname = <<"r", "e", "s", "u", "m", "e", ".", "d", "o", "c">>
  /\ req.file.buffer = <<208, 207, 17, 224, 0, 0, 0, 0>>
  /\ ~req.result.isValid

\* C24: validateResumeFile returns the result of the first check that fails
\* in the order name, size, extension, media type, signature, and passes the
\* file when none fails.
C24_FirstFailingCheck ==
  req.stage = "validated" =>
    LET n == validateFileName(req.file.originalname)
        s == validateFileSize(req.file.size)
        e == validateFileExtension(req.file.originalname)
        m == validateMimeType(req.file.mimetype)
        g == validateFileSignature(req.file.buffer, req.file.originalname)
    IN req.result = IF ~n.isValid THEN n
                    ELSE IF ~s.isValid THEN s
                    ELSE IF ~e.isValid THEN e
                    ELSE IF ~m.isValid THEN m
                    ELSE IF ~g.isValid THEN g
                    ELSE [isValid |-> TRUE]

C24_Witness ==
  /\ req.stage = "validated"
  /\ req.file.originalname = <<"r", "e", "s", "u", "m", "e", ".", "e", "x", "e", ".", "p", "d", "f">>
  /\ req.file.size = 0
  /\ req.file.mimetype = "text/plain"
  /\ req.file.buffer = <<0, 0>>
  /\ req.result = [isValid |-> FALSE,
                   error |-> "File name contains potentially dangerous extensions."]

\* Some segment of the name other than the first and the last is a
\* suspicious extension, whatever its case.
HasDisguisedExtension(name) ==
  LET parts == Split(name) IN
  \E i \in 2..(Len(parts) - 1) : toLowerCase(parts[i]) \in suspiciousExtensions

\* C25: validateFileName rejects every name with a suspicious extension in
\* an intermediate segment and accepts john.doe.resume.pdf.
C25_DisguisedExtensionRejected ==
  req.stage = "name" =>
    /\ HasDisguisedExtension(req.file.originalname) => ~req.result.isValid
    /\ req.file.originalname = <<"j", "o", "h", "n", ".", "d", "o", "e", ".", "r", "e", "s", "u", "m", "e", ".", "p", "d", "f">> => req.result.isValid

\* The media type that goes with the extension of the name.
MimeOf(name) ==
  CASE EndsWith(toLowerCase(name), <<".", "p", "d", "f">>) -> MimePdf
    [] EndsWith(toLowerCase(name), <<".", "d", "o", "c", "x">>) -> MimeDocx
    [] EndsWith(toLowerCase(name), <<".", "d", "o", "c">>) -> MimeDoc
    [] OTHER -> "none"

\* C29: a file that validateResumeFile accepts declares the media type of
\* its extension.
C29_MediaTypeMatchesExtension ==
  (req.stage = "validated" /\ req.result.isValid)
    => req.file.mimetype = MimeOf(req.file.originalname)

\* The file passed validateResumeFile and checkForMaliciousContent and its
\* extraction answered a text that is more than white space.
PassedGates(f) ==
  /\ validateFileName(up.files[f].originalname).isValid
  /\ validateFileSize(up.files[f].size).isValid
  /\ validateFileExtension(up.files[f].originalname).isValid
  /\ validateMimeType(up.files[f].mimetype).isValid
  /\ validateFileSignature(up.files[f].buffer, up.files[f].originalname).isValid
  /\ checkForMaliciousContent(up.files[f].buffer).isValid
  /\ \E k \in 1..Len(up.texts) :
       /\ up.texts[k].file = f
       /\ \E j \in 1..Len(up.texts[k].text) : up.texts[k].text[j] # WS

\* C22: a document is saved and triggerGeminiAnalysis is called for a file
\* only if the file passed validateResumeFile and checkForMaliciousContent
\* and its extracted text is not empty and not white space alone.
C22_OnlyGatedFilesSaved ==
  \A f \in Files :
    (FileId(f) \in DOMAIN docs \/ pc[f] # "idle" \/ resumeId[f] # MissingId
       \/ InList(up.uploadedResumes, f))
      => f \in 1..up.n /\ PassedGates(f)

C22_Witness ==
  /\ up.stage = "responded"
  /\ up.n = 2
  /\ up.files[1].mimetype = "text/plain"
  /\ up.texts = <<[file |-> 2, text |-> <<WS, Prose, WS>>]>>
  /\ DOMAIN docs = {FileId(2)}
  /\ pc[1] = "idle" /\ pc[2] # "idle"

\* C30: in one polling session onComplete and onError are called at most
\* once in total, no status request is started after polling has stopped,
\* and the status requests never outnumber maxAttempts.
C30_OneCallbackBoundedRequests ==
  poll.started =>
    /\ poll.onComplete + poll.onError <= 1
    /\ poll.lateRequests = 0
    /\ poll.requests <= poll.maxAttempts

\* The completed documents of the job.
CompletedOf(resumes) ==
  { k \in 1..Len(resumes) : resumes[k].processingStatus = "completed" }

\* max(1, ceil(0.2 * n))
NumToFlag(n) == IF (n + 4) \div 5 < 1 THEN 1 ELSE (n + 4) \div 5

\* C21: getCandidatesForJob answers the completed documents of the job by
\* descending score, flagged on exactly the first max(1, ceil(0.2 * n))
\* positions.
C21_TopFifthFlagged ==
  (req.stage = "listed" /\ req.status = 200) =>
    LET n == Cardinality(CompletedOf(req.request.resumes)) IN
    /\ Len(req.data) = n
    /\ {req.data[i].candidateId : i \in 1..n} = CompletedOf(req.request.resumes)
    /\ \A i \in 1..(n - 1) : req.data[i].score >= req.data[i + 1].score
    /\ \A i \in 1..n : req.data[i].isFlagged <=> i <= NumToFlag(n)

\* Every file of the request is a well-formed resume file under the size
\* limit.
AllFilesFine(files) ==
  \A i \in 1..Len(files) :
    /\ validateResumeFile(files[i]).isValid
    /\ checkForMaliciousContent(files[i].buffer).isValid

\* C28: a bulk request with 1 to 10 files in field 'resumeFiles' is not
\* rejected for its file count, and every one of its files reaches
\* uploadResume.
C28_BulkUploadAccepted ==
  (req.stage = "routed" /\ req.request.jobId /\ Len(req.request.files) \in 1..10
     /\ AllFilesFine(req.request.files))
    => /\ req.answer.error # "Too many files"
       /\ req.reached = Len(req.request.files)

\* Invocation p calls the model in this step.
CallsModel(p) == nCalls'[p] = nCalls[p] + 1

\* The store applies an update of invocation p in this step.
Writes(p) == nWrites'[p] = nWrites[p] + 1

\* The steps of one invocation come in their order: the write of
\* processing, with errorDetails cleared, before any call of the model; the
\* write of completed after the calls and the scrub, as the second and last
\* write.
C26_Order ==
  \A p \in Invocations :
    /\ (Writes(p) /\ pc[p] = "setProcessing")
         => /\ nCalls[p] = 0 /\ nWrites[p] = 0 /\ result[p] = None
            /\ docs'[resumeId[p]].processingStatus = "processing"
            /\ docs'[resumeId[p]].errorDetails = None
    /\ CallsModel(p) => nWrites[p] = 1 /\ result[p] = None
    /\ result'[p] # None => CallsModel(p) \/ result[p] # None
    /\ (Writes(p) /\ pc[p] = "setCompleted")
         => /\ nCalls[p] >= 1 /\ nWrites[p] = 1 /\ result[p] # None
            /\ docs'[resumeId[p]].processingStatus = "completed"
            /\ pc'[p] = "done"

\* The model is called for a document only while its stored status is
\* neither uploaded nor error.
C26_NotWhileUploadedOrError ==
  \A p \in Invocations :
    CallsModel(p) => Status(resumeId[p]) \notin {"uploaded", "error"}

\* C26: within one invocation the steps come in the order processing
\* written, model called, result scrubbed, completed written once; the
\* model is never called for a document whose stored status is uploaded or
\* error.
C26_StepsInOrder == [][C26_Order /\ C26_NotWhileUploadedOrError]_vars

\* C27: when the update of the catch block that writes status error is
\* rejected, the invocation makes no further update, calls the model no
\* more, and returns.
C27_Standing ==
  \A p \in Invocations : errWriteFailed[p] => pc[p] = "done"

C27_Move ==
  \A p \in Invocations :
    /\ (errWriteFailed'[p] /\ ~errWriteFailed[p])
         => pc[p] = "catch" /\ pc'[p] = "done" /\ docs' = docs /\ ~Writes(p)
    /\ errWriteFailed[p]
         => pc'[p] = "done" /\ nWrites'[p] = nWrites[p] /\ nCalls'[p] = nCalls[p]

C27_ErrorWriteFailureEndsQuietly == []C27_Standing /\ [][C27_Move]_vars

C27_Witness ==
  /\ errWriteFailed[1] /\ pc[1] = "done"
  /\ nWrites[1] = 1
  /\ Status(resumeId[1]) = "processing"

====
